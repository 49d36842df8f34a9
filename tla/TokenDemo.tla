------------------------------ MODULE TokenDemo ------------------------------
(***************************************************************************)
(* alg/demo/tokendemo.cpp: red and blue tokens are passed in opposite      *)
(* directions round a ring of contracted particles until their lifetimes   *)
(* run out.  Particle p is the p-th of the ring, from 0; tokens have an id *)
(* so that they can be told apart, as the code's shared pointers can.      *)
(***************************************************************************)
EXTENDS Amoebots, Sequences

CONSTANTS
  SideLen,         \* particles per side of the hexagon
  TokensPerColor,  \* tokens of each colour that the first particle gets
  Lifetime,        \* _lifetime of a new token
  Compasses        \* the draws of randDir(), one direction per particle

RingSize == 6 * SideLen

\* What an instance has to assume.
RingAssumption ==
  /\ SideLen \in Nat \ {0} /\ TokensPerColor \in Nat /\ Lifetime \in Nat
  /\ Compasses \subseteq [0 .. RingSize - 1 -> Dir]

VARIABLE tokens    \* the deque of tokens of each particle

vars == <<body, objects, tokens>>

\* hexNode, after p steps of the constructor's walk.
hexNode[p \in 0 .. RingSize - 1] ==
  IF p = 0 THEN <<0, 0>> ELSE NodeInDir(hexNode[p - 1], (p - 1) \div SideLen)

NewToken(color, id) == [color |-> color, id |-> id, passedFrom |-> -1, lifetime |-> Lifetime]

Init ==
  /\ objects = {}
  /\ \E compass \in Compasses :
       body = [p \in 0 .. RingSize - 1 |->
                [head |-> hexNode[p], globalTailDir |-> -1, orientation |-> compass[p]]]
  /\ tokens = [p \in 0 .. RingSize - 1 |->
                IF p = 0 THEN [i \in 1 .. 2 * TokensPerColor |->
                                 NewToken(IF i % 2 = 1 THEN "Red" ELSE "Blue", (i + 1) \div 2)]
                         ELSE << >>]

NbrLabels(p) == {l \in Dir : HasNbrAtLabel(p, l)}

\* Mutant: the scan starts at the neighbour the token came from.
PassToBack(p, token) ==
  LET first == FirstFrom(NbrLabels(p), 0, 6)
  IN  IF token.passedFrom # -1
      THEN FirstFrom(NbrLabels(p), token.passedFrom, 6)
      ELSE IF token.color = "Red" THEN first ELSE FirstFrom(NbrLabels(p) \ {first}, 0, 6)

\* A token that has not been passed goes to the first neighbour, or the second
\* if it is blue; any other goes on to the next neighbour after the one it
\* came from.
PassTo(p, token) ==
  LET first == FirstFrom(NbrLabels(p), 0, 6)
  IN  IF token.passedFrom # -1
      THEN FirstFrom(NbrLabels(p) \ {token.passedFrom}, token.passedFrom, 6)
      ELSE IF token.color = "Red" THEN first ELSE FirstFrom(NbrLabels(p) \ {first}, 0, 6)

\* The first port of the neighbour that points back at p.
PassedFrom(p, q) == FirstFrom({l \in Dir : PointsAtMe(body[p], body[q], l)}, 0, 6)

\* putToken.
PutToken(queue, token) == Append(queue, token)

\* hasToken; mutant: more than one.
HasTwoTokens(p) == Len(tokens[p]) > 1
HasToken(p)     == tokens[p] # << >>

HasLife(token) == token.lifetime > 0

\* activate(): takes the first token, and passes it on if it has life left.
Activate(p) ==
  /\ HasToken(p)
  /\ \E passTo \in NbrLabels(p), q \in particles :
       /\ passTo = PassTo(p, Head(tokens[p]))
       /\ q = NbrAtLabel(p, passTo)
       /\ tokens' =
            IF HasLife(Head(tokens[p]))
            THEN [tokens EXCEPT
                   ![p] = Tail(@),
                   ![q] = PutToken(@, [Head(tokens[p]) EXCEPT !.passedFrom = PassedFrom(p, q),
                                                              !.lifetime = @ - 1])]
            ELSE [tokens EXCEPT ![p] = Tail(@)]
  /\ UNCHANGED <<body, objects>>

HasTerminated == \A p \in particles : tokens[p] = << >>

Next == \E p \in particles : Activate(p)

\* The system activates particles at random for ever, so while one of them can
\* do something, something happens.
Spec == Init /\ [][Next]_vars /\ WF_vars(Next)

-----------------------------------------------------------------------------
(* Properties                                                              *)

Token ==
  [color : {"Red", "Blue"}, id : 1 .. TokensPerColor, passedFrom : {-1} \cup Dir,
   lifetime : 0 .. Lifetime]

\* The type invariant.
TypeOK == body \in [particles -> Body] /\ tokens \in [particles -> Seq(Token)]

\* Red and blue go opposite ways, whatever the compasses of the particles they
\* pass: a token is as many particles from the first as it has been passed,
\* clockwise or counter-clockwise by its colour.
OppositeWays ==
  \E turn \in {1, -1} : \A p \in particles : \A i \in DOMAIN tokens[p] :
    LET t      == tokens[p][i]
        passed == Lifetime - t.lifetime
    IN  p = (IF t.color = "Red" THEN turn * passed ELSE -turn * passed) % RingSize

Holding(t) == {p \in particles : \E i \in DOMAIN tokens[p] : tokens[p][i] = t}
Alive(color) ==
  {t \in UNION {{tokens[p][i] : i \in DOMAIN tokens[p]} : p \in particles} : t.color = color}

\* Tokens of one colour do not overtake one another, although their carriers
\* are activated in any order and queue tokens of both colours.
NoOvertaking ==
  \A color \in {"Red", "Blue"} : \A s, t \in Alive(color) :
    s.id < t.id =>
      \/ s.lifetime < t.lifetime
      \/ /\ s.lifetime = t.lifetime
         /\ \E p \in particles : \E i, j \in DOMAIN tokens[p] :
              i < j /\ tokens[p][i] = s /\ tokens[p][j] = t

\* The two colours go round in order.
Orderly == OppositeWays /\ NoOvertaking

KeepsTokens ==
  \A color \in {"Red", "Blue"} : \A t \in Alive(color) :
    /\ Cardinality(Holding(t)) = 1
    /\ t.lifetime > 0 => \E u \in Alive(color)' : u.id = t.id

\* No token is lost or duplicated while it lives: a token that disappears has
\* no life left, and none is in two places.
TokensKept == [][KeepsTokens]_vars

\* All tokens die out.
Terminates == <>HasTerminated
=============================================================================
