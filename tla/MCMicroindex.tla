---------------------------- MODULE MCMicroindex ----------------------------
EXTENDS Microindex

MCKeys == {<<1, 1>>, <<1, 2>>, <<2, 0>>, <<2, 1>>, <<2, 2>>}
MCContents == {[c \in 1..2 |-> IF c = 1 THEN one ELSE two] :
                 one \in SUBSET MCKeys, two \in {{<<1, 2>>, <<2, 1>>, <<0, 1>>}}}

\* the key with an unset column begins the second frame of two
MCUnset == {[c \in 1..1 |-> {<<1, 0>>, <<1, 1>>, <<1, 2>>, <<2, 1>>, <<2, 2>>}]}
=============================================================================
