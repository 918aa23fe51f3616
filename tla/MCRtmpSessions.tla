---------------------------- MODULE MCRtmpSessions ----------------------------
(* RtmpSessions with its constants as model values, for TLC. *)
EXTENDS RtmpSessions, FiniteSets, TLC

CONSTANTS c1, c2, c3, a1, n1, n2, l1, l2

ThreeConns == {c1, c2, c3}
TwoConns == {c1, c2}
OneApp == {a1}
OneName == {n1}
TwoNames == {n1, n2}

OneLoop == [c \in Conns |-> l1]
TwoLoops == [c \in Conns |-> IF c = c1 THEN l1 ELSE l2]

Interchangeable == Permutations(Conns) \cup Permutations(Names)

(* On two loops, those of the second. *)
SameLoop == Permutations(Conns \ {c1})

NamesInUse ==
  {n \in Names : \E c \in Conns : ctx[c].name = n} \cup {k[2] : k \in {q \in Keys : sessions[q] # None}}

(* A connection that gave an empty app after it had a role. *)
LostApp == \E c \in strayed : ctx[c].app = None

(* Connections are refused one at a time: the next once the last is closed. *)
OneRefused == Cardinality({c \in Conns : tcp[c] = "closing"}) <= 1

(* Three connections that follow the protocol on one stream, or two on two  *)
(* streams, one of which gives any commands, with one media message or an   *)
(* empty app.                                                               *)
Scope ==
  /\ OneRefused
  /\ \/ strayed = {} /\ Cardinality(NamesInUse) <= 1
     \/ /\ Cardinality({c \in Conns : tcp[c] # "none"}) <= 2
        /\ Cardinality(strayed) <= 1 /\ sent <= 1
        /\ sent = 0 \/ ~LostApp

(* Connections that all follow the protocol. *)
NoStrays == strayed = {} /\ OneRefused
==============================================================================
