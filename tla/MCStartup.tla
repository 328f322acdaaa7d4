------------------------------ MODULE MCStartup ------------------------------
(* Blocks of three bits, keys up to 6 against a largest int of 3, and outputs
   of up to three lines.  An int holds up to 41, a port 32 values: 34 wraps to 2, 41
   to 9, and 44 is out of range. *)
EXTENDS Startup

CONSTANTS server_addr, other_addr

MCBlock == SUBSET {1, 2, 3}
MCXor(a, b) == (a \ b) \cup (b \ a)
MCSubShift(a) ==
    IF a = {} THEN {1, 2, 3} ELSE IF a = {1, 2, 3} THEN {1} ELSE IF a = {1} THEN {} ELSE a
MCMixColumns(a) ==
    {i \in 1 .. 3 : Cardinality(a \cap (IF i = 3 THEN {2} ELSE {i, 3})) % 2 = 1}
MCInvSubShift(a) == CHOOSE b \in MCBlock : MCSubShift(b) = a
MCInvMixColumns(a) == CHOOSE b \in MCBlock : MCMixColumns(b) = a
MCKeyExp(k, round) == MCXor({(i % 3) + 1 : i \in k}, {(round % 3) + 1})

MCCipherTests ==
    [key : MCBlock, text : {<<>>} \cup {<<b>> : b \in MCBlock} \cup {<<{1}, {2, 3}>>, <<{}, {}>>}]
MCExchangeTests == [publicKey : {0, 2, 7, 10}, aKey : 0 .. 6, bKey : 0 .. 6]

MCDigitValue == [d \in {"1", "2", "3", "4"} |-> CHOOSE n \in 1 .. 4 : ToString(n) = d]
Line == {<<"x">>, <<"1", "x", ":", "x">>, <<"x", ":", " ", "1", ".", "2", ":", "3">>,
         <<"M", "1", ".", "2", ".", "3", ".", "1", ":", "4", "1">>,
         <<"M", "1", ".", ".", "3", ".", "1", ":", "4">>,
         <<"M", "1", ".", "2", ".", "3", ".", "1", ".", "4">>,
         <<"M", "4", "4", ".", "2", ".", "3", ".", "1", ":", "4">>,
         <<"M", "1", ".", "-", "2", ".", "3", ".", "+", "1", ":", "4", "4">>,
         <<"2", ":", "3", ":", "1">>, <<"2", ":", "3", "4">>}
MCAdapters == <<0, 2, 1>>

MCNewline == "\n"
Ended == {line \o <<MCNewline>> : line \in Line}
MCStunTexts ==
    {<<>>, <<" ">>} \cup Line \cup Ended \cup {a \o b : a \in Ended, b \in Line \cup Ended}
        \cup {<<"2", ":", "3", MCNewline>> \o a \o b : a \in Ended, b \in Ended}
=============================================================================
