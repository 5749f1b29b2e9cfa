-------------------------- MODULE MCSentenceStream --------------------------
(***************************************************************************)
(* A small instance of SentenceStream for TLC.  A transmission is three    *)
(* tokens and some noise at the end: whole sentences, sentences that break *)
(* off before and behind the comma, one with a wrong checksum, and noise.  *)
(* The checksum is two parities, of the letter b and of the length.        *)
(***************************************************************************)
EXTENDS SentenceStream

Letters == {"a", "b"}
Noise == {"."}

Parity(n) == IF n % 2 = 0 THEN "a" ELSE "b"
ParityCrc(s) == <<Parity(Len(SelectSeq(s, LAMBDA c : c = "b"))), Parity(Len(s))>>

Whole(start, callsign, data) ==
    start \o callsign \o <<",">> \o data \o <<"*">> \o ParityCrc(callsign \o <<",">> \o data)

Tokens == {
    Whole(<<"$">>, <<"a">>, <<"a">>),
    Whole(<<"$", "$">>, <<"b", "-">>, <<"nl", ",">>),
    <<"$", "b", ",", "b">>,
    <<"$", "b">>,
    <<"$", "a", ",", "a", "*", "a", "a">>,
    <<".", "*", "np">>,
    <<".", ".", ".", ".", ".", ".", ".", ".", ".", ".">> }

SomeTransmissions == {x \o y \o z \o <<".", "nl", ".", ".", ".", ".", ".">> :
                        x \in Tokens, y \in Tokens, z \in Tokens}
=============================================================================
