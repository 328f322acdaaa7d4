------------------------------- MODULE RuledKey -------------------------------
(* generateRuledKey: a to the power b modulo P, by b multiplications. *)
EXTENDS Naturals

generateRuledKey(a, b, P) ==
    LET key[i \in 0 .. b] == IF i = 0 THEN 1 ELSE (key[i - 1] * a) % P
    IN  key[b]

(* The loop counts b, an unsigned 64-bit number, with an int.  Past IntMax the
   counter overflows: a build may count on in a wider register, or the counter
   becomes negative, which as an unsigned number is not less than b. *)
RuledKeys(a, b, P, IntMax) ==
    {generateRuledKey(a, b, P)} \cup
    (IF b > IntMax THEN {generateRuledKey(a, IntMax + 1, P)} ELSE {})
=============================================================================
