--------------------------- MODULE MCTranslations ---------------------------
EXTENDS Translations

(* m1 is followed by m2, which has blanks around its text.                 *)
Kinds == [m \in Message |-> IF m = 2 THEN "padded" ELSE IF m = 3 THEN "chinese" ELSE "foreign"]
Edits == [m \in Message |-> IF m = 1 THEN 1 ELSE 0]
Places == [m \in Message |-> m]

=============================================================================
