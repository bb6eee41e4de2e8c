----------------------------- MODULE ByteStream -----------------------------
(* What a decoder may rely on when it reads a body that is still being       *)
(* downloaded: the contract of Read and Seek, stated over the bytes received *)
(* so far and the way the download ended.  Every answer is one step.         *)
EXTENDS Integers
VARIABLES
  body,     \* the number of bytes the server has for this request
  got,      \* the bytes received so far
  ending,   \* "open", "whole" (all of the body came) or "broken"
  pos,      \* the next byte the decoder gets
  answer    \* the last answer: its kind and a number

streamVars == <<body, got, ending, pos, answer>>

BSInit ==
  /\ body \in Nat
  /\ got = 0
  /\ ending = "open"
  /\ pos = 0
  /\ answer = <<"none", 0>>

\* More of the body arrives, while the download is open.
Grow ==
  /\ ending = "open"
  /\ got' \in (got + 1) .. body
  /\ UNCHANGED <<body, ending, pos, answer>>

\* The download ends: well only with the whole body.
End ==
  /\ ending = "open"
  /\ \/ ending' = "whole" /\ got = body
     \/ ending' = "broken"
  /\ UNCHANGED <<body, got, pos, answer>>

\* A read hands out the bytes that follow, and moves behind them.
Bytes ==
  \E n \in 1 .. (got - pos) :
    /\ pos' = pos + n
    /\ answer' = <<"bytes", n>>
    /\ UNCHANGED <<body, got, ending>>

\* A read reports the end of the stream: only behind the last byte of a whole
\* body.
EndOfStream ==
  /\ ending = "whole"
  /\ pos = body
  /\ answer' = <<"end", 0>>
  /\ UNCHANGED <<body, got, ending, pos>>

\* A read or a seek fails because the download broke: it wants a byte behind
\* the last that came, so every byte that came can still be had.
Broken ==
  /\ ending = "broken"
  /\ answer'[1] = "broken"
  /\ answer'[2] >= got
  /\ UNCHANGED <<body, got, ending, pos>>

\* A seek moves to a byte that has been received, or just behind the last.
Moved ==
  /\ pos' \in 0 .. got
  /\ answer' = <<"at", pos'>>
  /\ UNCHANGED <<body, got, ending>>

\* A seek is refused and moves nothing.
Refused ==
  /\ answer' = <<"refused", 0>>
  /\ UNCHANGED <<body, got, ending, pos>>

BSNext == Grow \/ End \/ Bytes \/ EndOfStream \/ Broken \/ Moved \/ Refused

BSSpec == BSInit /\ [][BSNext]_streamVars
=============================================================================
