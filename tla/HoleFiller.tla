------------------------------ MODULE HoleFiller ------------------------------
(***************************************************************************)
(* alg/holefiller.cpp: particles that know the global directions sink into *)
(* the gaps below them, drag along whoever lies above or beside their      *)
(* tails, and turn round where they got stuck.                             *)
(***************************************************************************)
EXTENDS Amoebots, Sequences

CONSTANTS
  Starts,            \* the nodes the constructor fills, in the order of the numbers
  Compasses          \* the draws of randDir(), one direction per particle

\* What an instance has to assume.
StartsAssumption ==
  \A places \in Starts :
    /\ places \in Seq(Node)
    /\ \A i, j \in 1 .. Len(places) : places[i] = places[j] => i = j
    /\ Connected({places[i] : i \in 1 .. Len(places)})
    /\ \A compass \in Compasses : \A p \in 1 .. Len(places) : compass[p] \in Dir

vars == <<body, objects>>

\* GlobalParticle::Direction
Right == 0
TopRight == 1
TopLeft == 2
Left == 3
BottomLeft == 4
BottomRight == 5

Init ==
  /\ objects = {}
  /\ \E places \in Starts, compass \in Compasses :
       body = [p \in 1 .. Len(places) |->
                [head |-> places[p], globalTailDir |-> -1, orientation |-> compass[p]]]

-----------------------------------------------------------------------------
(* What particle p sees and does when its body is b: its own, or the one   *)
(* it has just expanded to.                                                *)

HasNbrAt(p, n) == n \in UNION {Nodes(body[q]) : q \in particles \ {p}}
NbrAt(p, n)    == CHOOSE q \in particles \ {p} : n \in Nodes(body[q])

\* hasNbrAtGlobalDir(dir, false), and nbrAtGlobalDir().
HasTailNbr(p, b, dir) == HasNbrAt(p, NodeInDir(TailNode(b), dir))
TailNbr(p, b, dir)    == NbrAt(p, NodeInDir(TailNode(b), dir))

\* expandToGlobalDir(), for a contracted body.
ExpandedTo(b, dir) == Expanded(b, GlobalToLocalDir(b, dir))

\* contractTail() and expandToGlobalDir().
Turned(b, dir) == ExpandedTo(TailContracted(b), dir)

\* The directions in which the tail looks for someone to pull, in order: from
\* the one above on the head's side to the one beside on the other.
Scan(b) == IF b.globalTailDir \in {TopLeft, Left} THEN <<TopRight, TopLeft, Left>>
                                                  ELSE <<TopLeft, TopRight, Right>>
Beside(b) == Scan(b)[3]

\* The directions below the tail, under its free side and under its head's.
Below(b)      == IF Beside(b) = Left THEN BottomLeft ELSE BottomRight
BelowAhead(b) == IF Beside(b) = Left THEN BottomRight ELSE BottomLeft

Sinking(b) == b.globalTailDir \in {TopLeft, TopRight}
Level(b)   == b.globalTailDir \in {Left, Right}

Pullable(p, b) ==
  {i \in 1..3 : HasTailNbr(p, b, Scan(b)[i]) /\ IsContracted(body[TailNbr(p, b, Scan(b)[i])])}

Pulls(p, b) == (Sinking(b) \/ Level(b)) /\ Pullable(p, b) # {}

\* pullFromGlobalDir() in the first direction that has a contracted neighbour.
AfterPulling(p, b) ==
  LET dir   == Scan(b)[CHOOSE i \in Pullable(p, b) : \A j \in Pullable(p, b) : i <= j]
      child == TailNbr(p, b, dir)
  IN  [body EXCEPT ![p] = Released(b, TailNode(b)),
                   ![child] = PulledOnto(@, TailNode(b), dir)]

\* Nobody, not even an expanded particle, lies above the tail.
FreeAbove(p, b) == \A i \in 1..2 : ~ HasTailNbr(p, b, Scan(b)[i])

\* A particle that sank turns into the gap under the neighbour beside its tail.
TurnsUnder(p, b) ==
  /\ Sinking(b) /\ FreeAbove(p, b)
  /\ HasTailNbr(p, b, Beside(b))
  /\ ~ HasTailNbr(p, b, Below(b))

\* Two that pull away from each other on one level: one turns back to its tail.
TurnsBack(p, b) ==
  /\ Level(b) /\ FreeAbove(p, b)
  /\ HasTailNbr(p, b, Beside(b))
  /\ body[TailNbr(p, b, Beside(b))].globalTailDir = Opposite(Beside(b))

\* With someone under its tail but not under its head's side, it turns down.
TurnsDown(p, b) ==
  /\ Level(b) /\ FreeAbove(p, b)
  /\ ~ HasTailNbr(p, b, Beside(b))
  /\ HasTailNbr(p, b, Below(b))
  /\ ~ HasTailNbr(p, b, BelowAhead(b))

\* Mutant: canContract is not cleared when a neighbour cannot be pulled.
ContractsAnyway(p, b) ==
  \/ ~ Level(b)
  \/ Level(b) /\ ~ TurnsDown(p, b) /\ ~ TurnsBack(p, b)

Contracts(p, b) ==
  \/ ~ Sinking(b) /\ ~ Level(b)
  \/ Sinking(b) /\ FreeAbove(p, b) /\ ~ TurnsUnder(p, b)
  \/ Level(b) /\ FreeAbove(p, b) /\ ~ HasTailNbr(p, b, Beside(b)) /\ ~ TurnsDown(p, b)

\* The bodies after an expanded particle has acted.
AfterActing(p, b) ==
  CASE Pulls(p, b)      -> AfterPulling(p, b)
    [] ~ Pulls(p, b) /\ (TurnsUnder(p, b) \/ TurnsBack(p, b))
                        -> [body EXCEPT ![p] = Turned(b, Beside(b))]
    [] ~ Pulls(p, b) /\ TurnsDown(p, b)
                        -> [body EXCEPT ![p] = Turned(b, Below(b))]
    [] ~ Pulls(p, b) /\ Contracts(p, b)
                        -> [body EXCEPT ![p] = TailContracted(b)]
    [] OTHER            -> [body EXCEPT ![p] = b]

-----------------------------------------------------------------------------
\* A contracted particle with a neighbour on one side below sinks on the other,
\* and goes on as expanded; 9 - side is the other one.
Sink(p) ==
  /\ IsContracted(body[p])
  /\ \E side \in {BottomLeft, BottomRight} :
       /\ ~ HasNbrAt(p, NodeInDir(body[p].head, side))
       /\ HasNbrAt(p, NodeInDir(body[p].head, 9 - side))
       /\ body' = AfterActing(p, ExpandedTo(body[p], side))
  /\ UNCHANGED objects

Act(p) ==
  /\ IsExpanded(body[p])
  /\ body' = AfterActing(p, body[p])
  /\ body' # body
  /\ UNCHANGED objects

\* activate(); in every other case it changes nothing.
Activate(p) == Sink(p) \/ Act(p)

Next == \E p \in particles : Activate(p)

\* The system activates particles at random for ever, so while one of them can
\* do something, something happens.
Spec == Init /\ [][Next]_vars /\ WF_vars(Next)

-----------------------------------------------------------------------------
(* Properties                                                              *)

\* Nobody would do anything: those below whom only one side is free have sunk,
\* and the expanded are stuck.
AtRest ==
  \A p \in particles :
    IF IsExpanded(body[p]) THEN AfterActing(p, body[p]) = body
    ELSE \A side \in {BottomLeft, BottomRight} :
           HasNbrAt(p, NodeInDir(body[p].head, side)) = HasNbrAt(p, NodeInDir(body[p].head, 9 - side))

\* The type invariant: heads only ever lie below or beside their tails, for
\* which activate() has its four cases, and nobody lies on another.
TypeOK ==
  /\ body \in [particles -> Body]
  /\ \A p \in particles : body[p].globalTailDir \notin {BottomLeft, BottomRight}
  /\ \A p, q \in particles : p # q => Nodes(body[p]) \cap Nodes(body[q]) = {}

\* However the particles sink, drag one another along and turn round (activate),
\* they stay together, and none is left stretched out when all have come to
\* rest.
FillersHoldTogether ==
  /\ Connected(Occupied)
  /\ AtRest => \A p \in particles : IsContracted(body[p])

\* They come to rest.
Settles == <>AtRest
=============================================================================
