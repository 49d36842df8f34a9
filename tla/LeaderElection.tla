---------------------------- MODULE LeaderElection ----------------------------
(***************************************************************************)
(* alg/leaderelection.cpp: the particles on the boundaries of the system   *)
(* act for up to three agents each.  The agents of a boundary form a ring; *)
(* they compare the lengths of their segments, flip coins, verify that     *)
(* they are alone and test which boundary they are on, all by tokens that  *)
(* they pass to the next or the previous agent.                            *)
(*                                                                         *)
(* A token is held by a particle and says from which of its neighbours it  *)
(* came; which agent it is for follows from its type and its origin.       *)
(***************************************************************************)
EXTENDS Amoebots, Sequences, FiniteSetsExt

CONSTANTS
  Shapes,          \* the initial bodies to look at, contracted
  Retrying         \* the shapes where agents that turn out not to be alone go on;
                   \* a bound: on the others they stop there

ShapesAssumption ==
  \A b \in Shapes :
    /\ DOMAIN b \subseteq Nat /\ IsFiniteSet(DOMAIN b)
    /\ \A p \in DOMAIN b : b[p] \in Body /\ IsContracted(b[p])
    /\ \A p, q \in DOMAIN b : b[p].head = b[q].head => p = q

VARIABLES
  state,           \* the state of each particle
  currentAgent,    \* the index of the agent to activate next
  agents,          \* the agents of each particle, a sequence
  tokens           \* the deque of tokens of each particle

vars == <<body, objects, state, currentAgent, agents, tokens>>

-----------------------------------------------------------------------------
(* The agents of a particle.                                               *)

NbrDirs(p) == {d \in Dir : HasNbrAtLabel(p, d)}

\* getNextAgentDir and getPrevAgentDir: the first neighbour clockwise and
\* counter-clockwise from a free direction.
NextAgentDir(p, dir) ==
  CHOOSE d \in NbrDirs(p) : \A e \in NbrDirs(p) : (dir - d + 6) % 6 <= (dir - e + 6) % 6
PrevAgentDir(p, dir) == FirstFrom(NbrDirs(p), dir, 6)

\* The free directions in front of a neighbour: one agent each.
AgentDirs(p) == {d \in Dir \ NbrDirs(p) : (d + 1) % 6 \in NbrDirs(p)}

\* An agent's Boolean fields that are true make up its flags.
NewAgent(p, dir, localId) ==
  [localId |-> localId, agentDir |-> dir,
   nextAgentDir |-> NextAgentDir(p, dir), prevAgentDir |-> PrevAgentDir(p, dir),
   agentState |-> "Candidate", subPhase |-> "SegmentComparison", flags |-> {}]

NewAgents(p) ==
  LET nth(k) == CHOOSE d \in AgentDirs(p) : Cardinality({e \in AgentDirs(p) : e < d}) = k - 1
  IN  [k \in 1 .. Cardinality(AgentDirs(p)) |-> NewAgent(p, nth(k), k)]

-----------------------------------------------------------------------------
(* Tokens.  flag is isFinal, hasCoveredCandidate, isSettled or             *)
(* isSoleCandidate, number is local_id or borderSum, and the vector of a   *)
(* solitude token is the offset of direction turn.                         *)

NewToken(type) == [type |-> type, origin |-> -1, flag |-> FALSE, number |-> -1, turn |-> 0]
Flagged(type, flag) == [NewToken(type) EXCEPT !.flag = flag]

Positions(queue, type, origin) ==
  {i \in DOMAIN queue : queue[i].type = type /\ queue[i].origin = origin}

\* hasAgentToken, peekAgentToken and takeAgentToken: the first that fits; the
\* token at the front takes the place of the one that is taken.
HasAgentToken(queue, type, dir)  == Positions(queue, type, dir) # {}
PeekAgentToken(queue, type, dir) == queue[Min(Positions(queue, type, dir))]
TakeAgentToken(queue, type, dir) ==
  Tail([queue EXCEPT ![Min(Positions(queue, type, dir))] = Head(queue)])

\* The direction from q to its neighbour p.
LabelTo(q, p) == CHOOSE l \in NbrDirs(q) : NbrAtLabel(q, l) = p

-----------------------------------------------------------------------------
(* What an agent can do.  It sees and changes s: the particle p it acts    *)
(* for, its own fields a, and the tokens of all particles.                 *)

Queue(s) == s.tokens[s.p]

AtNext(s, type)   == HasAgentToken(Queue(s), type, s.a.nextAgentDir)
AtPrev(s, type)   == HasAgentToken(Queue(s), type, s.a.prevAgentDir)
NextToken(s, type) == PeekAgentToken(Queue(s), type, s.a.nextAgentDir)
PrevToken(s, type) == PeekAgentToken(Queue(s), type, s.a.prevAgentDir)
TakeNext(s, type) == [s EXCEPT !.tokens[s.p] = TakeAgentToken(@, type, s.a.nextAgentDir)]
TakePrev(s, type) == [s EXCEPT !.tokens[s.p] = TakeAgentToken(@, type, s.a.prevAgentDir)]

DropNext(s, type) == IF AtNext(s, type) THEN TakeNext(s, type) ELSE s
DropPrev(s, type) == IF AtPrev(s, type) THEN TakePrev(s, type) ELSE s

\* putToken on the own particle, as if it had come from the next one.
PutOwn(s, token) ==
  [s EXCEPT !.tokens[s.p] = Append(@, [token EXCEPT !.origin = s.a.nextAgentDir])]

\* passAgentToken
Pass(s, dir, token) ==
  LET q == NbrAtLabel(s.p, dir)
  IN  [s EXCEPT !.tokens[q] = Append(@, [token EXCEPT !.origin = LabelTo(q, s.p)])]
PassNext(s, token) == Pass(s, s.a.nextAgentDir, token)
PassPrev(s, token) == Pass(s, s.a.prevAgentDir, token)

MoveOn(s, type)   == PassNext(TakePrev(s, type), PrevToken(s, type))
MoveBack(s, type) == PassPrev(TakeNext(s, type), NextToken(s, type))

\* nextAgent() and prevAgent(): there is one, and it has no such token coming
\* from the previous (next) agent.
NextAgent(s) ==
  LET q == NbrAtLabel(s.p, s.a.nextAgentDir)
  IN  {agents[q][i] : i \in {j \in DOMAIN agents[q] : agents[q][j].prevAgentDir = LabelTo(q, s.p)}}
NextQueue(s) == s.tokens[NbrAtLabel(s.p, s.a.nextAgentDir)]
NextFreeOf(s, type) ==
  \E b \in NextAgent(s) : ~ HasAgentToken(NextQueue(s), type, b.prevAgentDir)
PrevAgent(s) ==
  LET q == NbrAtLabel(s.p, s.a.prevAgentDir)
  IN  {agents[q][i] : i \in {j \in DOMAIN agents[q] : agents[q][j].nextAgentDir = LabelTo(q, s.p)}}
PrevQueue(s) == s.tokens[NbrAtLabel(s.p, s.a.prevAgentDir)]
PrevFreeOf(s, type) ==
  \E b \in PrevAgent(s) : ~ HasAgentToken(PrevQueue(s), type, b.nextAgentDir)

Is(s, flag)     == flag \in s.a.flags
Raise(s, flags) == [s EXCEPT !.a.flags = @ \cup flags]
Lower(s, flags) == [s EXCEPT !.a.flags = @ \ flags]
Enter(s, agentState) == [s EXCEPT !.a.agentState = agentState]
EnterPhase(s, phase) == [s EXCEPT !.a.subPhase = phase]

-----------------------------------------------------------------------------
(* Tokens that go wrong ways, and the vector tokens.                       *)

VectorTokens == {"PositiveX", "PositiveY", "NegativeX", "NegativeY"}

\* A solitude token on its way out has no local_id yet.
OutwardAtPrev(s)  == AtPrev(s, "SolitudeActive") /\ PrevToken(s, "SolitudeActive").number = -1
ReturnedAtNext(s) == AtNext(s, "SolitudeActive") /\ NextToken(s, "SolitudeActive").number # -1

\* cleanSolitudeVerificationTokens()
CleanVectors(s) ==
  Lower(DropNext(DropNext(DropNext(DropNext(s, "PositiveX"), "PositiveY"), "NegativeX"), "NegativeY"),
        {"hasGeneratedTokens"})

\* activeClean(first)
ActiveClean(s, first) ==
  LET t == IF ~ first THEN DropNext(s, "ActiveSegment") ELSE s
      u == IF first \/ s.a.agentState # "Candidate" THEN DropPrev(t, "FinalSegmentClean") ELSE t
  IN  Lower(u, {"absorbedActiveToken"})

\* passiveClean(first)
CleanOutward(s) ==
  LET t == IF OutwardAtPrev(s) THEN TakePrev(s, "SolitudeActive") ELSE s
  IN  DropPrev(DropPrev(t, "SegmentLead"), "CandidacyAnnounce")
DropReturned(s) == IF ReturnedAtNext(s) THEN TakeNext(s, "SolitudeActive") ELSE s
CleanReplies(s, first) ==
  LET t == DropNext(s, "PassiveSegment")
      u == IF first THEN DropReturned(DropNext(t, "CandidacyAck"))
                    ELSE DropNext(DropReturned(t), "CandidacyAck")
  IN  IF Is(u, "hasGeneratedTokens") THEN CleanVectors(u) ELSE u
\* Mutant: a candidate loses the answers to its own tokens, too.
PassiveCleanAll(s, first) ==
  CleanReplies(IF first THEN s ELSE CleanOutward(s), first)

PassiveClean(s, first) ==
  LET t == IF first THEN s ELSE CleanOutward(s)
  IN  IF first \/ s.a.agentState # "Candidate" THEN CleanReplies(t, first) ELSE t

\* augmentDirVector: the turn the boundary takes at the agent.
Augmented(s, turn) == (turn + s.a.nextAgentDir - Opposite(s.a.prevAgentDir) + 6) % 6

\* generateSolitudeVectorTokens
GenerateVectors(s, turn) ==
  LET x == NodeInDir(<<0, 0>>, turn)[1]
      y == NodeInDir(<<0, 0>>, turn)[2]
      t == CASE x = -1 -> PutOwn(s, NewToken("NegativeX"))
             [] x = 1  -> PutOwn(s, NewToken("PositiveX"))
             [] x = 0  -> s
  IN  CASE y = -1 -> PutOwn(t, NewToken("NegativeY"))
        [] y = 1  -> PutOwn(t, NewToken("PositiveY"))
        [] y = 0  -> t

\* checkSolitudeXTokens and checkSolitudeYTokens, for the two types of an axis.
CheckTokens(s, axis) ==
  LET settled == [t \in {u \in axis : AtNext(s, u)} |-> NextToken(s, t).flag]
  IN  IF \E t \in DOMAIN settled : ~ settled[t] THEN "unsettled"
      ELSE IF Cardinality(DOMAIN settled) = 1 THEN "mismatch" ELSE "match"
CheckX(s) == CheckTokens(s, {"PositiveX", "NegativeX"})
CheckY(s) == CheckTokens(s, {"PositiveY", "NegativeY"})

Settle(s, type) ==
  [s EXCEPT !.tokens[s.p][Min(Positions(Queue(s), type, s.a.nextAgentDir))].flag = TRUE]
SettleNext(s, type) == IF AtNext(s, type) THEN Settle(s, type) ELSE s

\* addNextBorder: the turn at the agent, from -2 to 3, added modulo 5.
AddNextBorder(s, sum) ==
  LET offset == ((Opposite(s.a.prevAgentDir) - s.a.nextAgentDir + 8) % 6) - 2
  IN  (sum + offset + 5) % 5

-----------------------------------------------------------------------------
(* activate() of an agent that is a candidate; d is passTokensDir.         *)

CandidateCleans(s) ==
  LET t == IF AtNext(s, "ActiveSegmentClean")
           THEN TakeNext(ActiveClean(s, FALSE), "ActiveSegmentClean") ELSE s
  IN  IF AtPrev(t, "PassiveSegmentClean")
      THEN TakePrev(PassiveClean(t, FALSE), "PassiveSegmentClean") ELSE t

\* The first agent of a segment is counted by the candidate that ends it.
AnswerLead(s) ==
  IF AtPrev(s, "SegmentLead") /\ PrevFreeOf(s, "PassiveSegment")
  THEN PassPrev(TakePrev(s, "SegmentLead"), Flagged("PassiveSegment", TRUE))
  ELSE s

\* A candidate that meets the end of the previous segment tells its own; one
\* that meets more than that is covered and gives up.
MeetSegment(s, d) ==
  IF ~ (AtNext(s, "ActiveSegment") /\ d = 0 /\ ~ Is(s, "absorbedActiveToken")) THEN s
  ELSE IF NextToken(s, "ActiveSegment").flag
  THEN PassNext(TakeNext(s, "ActiveSegment"), Flagged("FinalSegmentClean", TRUE))
  ELSE IF NextFreeOf(s, "PassiveSegmentClean")
  THEN LET t == PassiveClean(PassNext(s, NewToken("PassiveSegmentClean")), TRUE)
           u == ActiveClean(PutOwn(t, NewToken("ActiveSegmentClean")), TRUE)
       IN  Enter(Raise(u, {"generatedCleanToken", "absorbedActiveToken", "isCoveredCandidate"}),
                 "Demoted")
  ELSE s

AnswerAnnounce(s, d) ==
  IF AtPrev(s, "CandidacyAnnounce") /\ d = 1
  THEN Raise(PassPrev(TakePrev(s, "CandidacyAnnounce"), NewToken("CandidacyAck")),
             {IF Is(s, "waitingForTransferAck") THEN "gotAnnounceBeforeAck"
                                                ELSE "gotAnnounceInCompare"})
  ELSE s

AnswerSolitude(s, d) ==
  IF d = 1 /\ OutwardAtPrev(s)
  THEN PassPrev(TakePrev(s, "SolitudeActive"),
                [PrevToken(s, "SolitudeActive") EXCEPT !.number = s.a.localId])
  ELSE s

\* Mutant: the Y tokens are forgotten.
SettleXOnly(s) == SettleNext(SettleNext(s, "NegativeX"), "PositiveX")

SettleVectors(s) ==
  SettleNext(SettleNext(SettleNext(SettleNext(s, "NegativeX"), "PositiveX"), "NegativeY"), "PositiveY")

CompareSegments(s, d) ==
  IF d = 1 /\ AtNext(s, "PassiveSegment")
  THEN IF PrevFreeOf(s, "ActiveSegment")
       THEN PassPrev(TakeNext(s, "PassiveSegment"),
                     Flagged("ActiveSegment", NextToken(s, "PassiveSegment").flag))
       ELSE s
  ELSE IF AtPrev(s, "FinalSegmentClean")
  THEN LET t == Lower(TakePrev(s, "FinalSegmentClean"), {"comparingSegment", "gotAnnounceInCompare"})
       IN  IF PrevToken(s, "FinalSegmentClean").flag \/ Is(s, "gotAnnounceInCompare")
           THEN EnterPhase(t, "CoinFlipping") ELSE Enter(t, "Demoted")
  ELSE IF ~ Is(s, "comparingSegment") /\ d = 0
  THEN Raise(PassNext(s, NewToken("SegmentLead")), {"comparingSegment"})
  ELSE s

FlipCoin(s, d, coin) ==
  IF AtNext(s, "CandidacyAck")
  THEN LET t == Lower(TakeNext(s, "CandidacyAck"), {"waitingForTransferAck", "gotAnnounceBeforeAck"})
       IN  IF Is(s, "gotAnnounceBeforeAck") THEN EnterPhase(t, "SolitudeVerification")
                                            ELSE Enter(t, "Demoted")
  ELSE IF ~ Is(s, "waitingForTransferAck") /\ d = 0 /\ coin
  THEN Raise(PassNext(s, NewToken("CandidacyAnnounce")), {"waitingForTransferAck"})
  ELSE s

\* Mutant: whether the vectors match is not looked at.
VerifyIdOnly(s, d) ==
  IF ~ Is(s, "createdLead") /\ d = 0
  THEN Raise(PutOwn(PassNext(s, Flagged("SolitudeActive", TRUE)), Flagged("PositiveX", TRUE)),
             {"createdLead", "hasGeneratedTokens"})
  ELSE IF ~ ReturnedAtNext(s) THEN s
  ELSE LET token == NextToken(s, "SolitudeActive")
           t     == CleanVectors(Lower(TakeNext(s, "SolitudeActive"), {"createdLead"}))
       IN  IF token.number = s.a.localId
           THEN Enter(t, "SoleCandidate")
           ELSE IF "unsettled" \in {CheckX(s), CheckY(s)} THEN s
           ELSE EnterPhase(t, "SegmentComparison")

\* The assertion that no vector token of a candidate is unsettled stops the
\* activation.
VerifySolitude(s, d) ==
  IF ~ Is(s, "createdLead") /\ d = 0
  THEN Raise(PutOwn(PassNext(s, Flagged("SolitudeActive", TRUE)), Flagged("PositiveX", TRUE)),
             {"createdLead", "hasGeneratedTokens"})
  ELSE IF ~ ReturnedAtNext(s) THEN s
  ELSE LET token == NextToken(s, "SolitudeActive")
           t     == CleanVectors(Lower(TakeNext(s, "SolitudeActive"), {"createdLead"}))
       IN  IF /\ token.flag /\ token.number = s.a.localId
              /\ CheckX(s) = "match" /\ CheckY(s) = "match"
           THEN Enter(t, "SoleCandidate")
           ELSE IF "unsettled" \in {CheckX(s), CheckY(s)} THEN s
           ELSE EnterPhase(t, "SegmentComparison")

CandidateActivates(s, d, coin) ==
  LET met      == MeetSegment(AnswerLead(CandidateCleans(s)), d)
      answered == SettleVectors(AnswerSolitude(AnswerAnnounce(met, d), d))
  IN  IF met.a.agentState = "Demoted" THEN met
      ELSE CASE s.a.subPhase = "SegmentComparison"    -> CompareSegments(answered, d)
             [] s.a.subPhase = "CoinFlipping"         -> FlipCoin(answered, d, coin)
             [] s.a.subPhase = "SolitudeVerification" -> VerifySolitude(answered, d)

-----------------------------------------------------------------------------
(* activate() of an agent that has been demoted: it passes on what comes.  *)

PassPassiveClean(s, d) ==
  IF ~ AtPrev(s, "PassiveSegmentClean") THEN s
  ELSE LET t == PassiveClean(s, FALSE)
       IN  IF d = 0 /\ NextFreeOf(t, "PassiveSegmentClean") THEN MoveOn(t, "PassiveSegmentClean") ELSE t

PassActiveClean(s, d) ==
  IF ~ AtNext(s, "ActiveSegmentClean") THEN s
  ELSE LET t == ActiveClean(s, Is(s, "generatedCleanToken"))
       IN  IF d = 1 /\ PrevFreeOf(t, "ActiveSegmentClean")
           THEN Lower(MoveBack(t, "ActiveSegmentClean"), {"generatedCleanToken"}) ELSE t

PassLead(s, d) ==
  IF d = 0 /\ AtPrev(s, "SegmentLead") /\ NextFreeOf(s, "PassiveSegmentClean")
  THEN PutOwn(MoveOn(s, "SegmentLead"), Flagged("PassiveSegment", FALSE)) ELSE s

PassPassive(s, d) ==
  IF d = 1 /\ AtNext(s, "PassiveSegment") /\ PrevFreeOf(s, "PassiveSegment")
  THEN MoveBack(s, "PassiveSegment") ELSE s

\* One active token stays with each agent of the previous segment.
PassActive(s, d) ==
  IF ~ AtNext(s, "ActiveSegment") THEN s
  ELSE IF d = 0 /\ ~ Is(s, "absorbedActiveToken")
  THEN IF NextToken(s, "ActiveSegment").flag
       THEN PassNext(TakeNext(s, "ActiveSegment"), Flagged("FinalSegmentClean", FALSE))
       ELSE Raise(TakeNext(s, "ActiveSegment"), {"absorbedActiveToken"})
  ELSE IF /\ d = 1 /\ Is(s, "absorbedActiveToken")
          /\ PrevFreeOf(s, "ActiveSegment") /\ PrevFreeOf(s, "ActiveSegmentClean")
  THEN MoveBack(s, "ActiveSegment") ELSE s

PassFinal(s, d) ==
  IF ~ (d = 0 /\ AtPrev(s, "FinalSegmentClean")) THEN s
  ELSE LET token == PrevToken(s, "FinalSegmentClean")
           t     == Lower(TakePrev(s, "FinalSegmentClean"), {"absorbedActiveToken", "isCoveredCandidate"})
       IN  PassNext(t, [token EXCEPT !.flag = @ \/ Is(s, "isCoveredCandidate")])

PassAnnounce(s, d) ==
  IF d = 0 /\ AtPrev(s, "CandidacyAnnounce") /\ NextFreeOf(s, "PassiveSegmentClean")
  THEN MoveOn(s, "CandidacyAnnounce") ELSE s

PassAck(s, d) ==
  IF d = 1 /\ AtNext(s, "CandidacyAck") THEN MoveBack(s, "CandidacyAck") ELSE s

\* On its way out the solitude token leaves a vector at each agent, on its way
\* back it takes along whether the vectors have been matched.
PassSolitude(s, d) ==
  IF /\ d = 0 /\ OutwardAtPrev(s)
     /\ NextFreeOf(s, "PassiveSegmentClean") /\ ~ Is(s, "hasGeneratedTokens")
  THEN LET token == PrevToken(s, "SolitudeActive")
           turn  == Augmented(s, token.turn)
       IN  Raise(PassNext(GenerateVectors(TakePrev(s, "SolitudeActive"), turn),
                          [token EXCEPT !.turn = turn]),
                 {"hasGeneratedTokens"})
  ELSE IF d = 1 /\ ReturnedAtNext(s) /\ Is(s, "hasGeneratedTokens")
  THEN LET token   == NextToken(s, "SolitudeActive")
           checks  == {CheckX(s), CheckY(s)}
           back(t) == CleanVectors(PassPrev(TakeNext(s, "SolitudeActive"), t))
       IN  IF checks = {"match"} \/ ~ token.flag THEN back(token)
           ELSE IF "mismatch" \in checks THEN back([token EXCEPT !.flag = FALSE])
           ELSE s
  ELSE s

\* A vector token goes back until the one before it has settled.
PassVector(s, d, type) ==
  IF /\ AtNext(s, type) /\ Is(s, "hasGeneratedTokens")
     /\ ~ NextToken(s, type).flag
  THEN IF d = 1 /\ PrevFreeOf(s, type) THEN MoveBack(s, type)
       ELSE IF \E b \in PrevAgent(s) :
                 /\ HasAgentToken(PrevQueue(s), type, b.nextAgentDir)
                 /\ PeekAgentToken(PrevQueue(s), type, b.nextAgentDir).flag
       THEN Settle(s, type) ELSE s
  ELSE s
PassVectors(s, d) ==
  PassVector(PassVector(PassVector(PassVector(s, d, "NegativeX"), d, "PositiveX"),
                        d, "NegativeY"), d, "PositiveY")

PassBorder(s, d) ==
  IF d = 0 /\ AtPrev(s, "BorderTest")
  THEN LET token == PrevToken(s, "BorderTest")
       IN  Enter(PassNext(TakePrev(s, "BorderTest"),
                          [token EXCEPT !.number = AddNextBorder(s, token.number)]), "Finished")
  ELSE s

DemotedActivates(s, d) ==
  LET cleaned  == PassActiveClean(PassPassiveClean(s, d), d)
      compared == PassFinal(PassActive(PassPassive(PassLead(cleaned, d), d), d), d)
      flipped  == PassAck(PassAnnounce(compared, d), d)
  IN  PassBorder(PassVectors(PassSolitude(flipped, d), d), d)

\* The only candidate left adds up the turns of its boundary: five on the
\* outer one, less on others, so that modulo 5 they are told apart.
SoleCandidateActivates(s) ==
  IF ~ Is(s, "testingBorder")
  THEN Raise(PassNext(s, [NewToken("BorderTest") EXCEPT !.number = AddNextBorder(s, 0)]),
             {"testingBorder"})
  ELSE IF ~ (AtPrev(s, "BorderTest") /\ PrevToken(s, "BorderTest").number # -1) THEN s
  ELSE LET t == Lower(TakePrev(s, "BorderTest"), {"testingBorder"})
       IN  CASE PrevToken(s, "BorderTest").number = 1 -> Enter(t, "Leader")
             [] PrevToken(s, "BorderTest").number = 4 -> Enter(t, "Finished")
             [] OTHER -> s

AgentActivates(s, d, coin) ==
  CASE s.a.agentState = "Candidate"     -> CandidateActivates(s, d, coin)
    [] s.a.agentState = "Demoted"       -> DemotedActivates(s, d)
    [] s.a.agentState = "SoleCandidate" -> SoleCandidateActivates(s)
    [] s.a.agentState \in {"Leader", "Finished"} -> s

-----------------------------------------------------------------------------
Init ==
  /\ body \in Shapes
  /\ objects = {}
  /\ state = [p \in particles |-> "Idle"]
  /\ currentAgent = [p \in particles |-> 1]
  /\ agents = [p \in particles |-> << >>]
  /\ tokens = [p \in particles |-> << >>]

\* Alone, or surrounded and so on no boundary: no agents.
NeedNoAgents(p) ==
  /\ state[p] = "Idle"
  /\ NbrDirs(p) \in {{}, Dir}
  /\ state' = [state EXCEPT ![p] = IF NbrDirs(p) = {} THEN "Leader" ELSE "Finished"]
  /\ UNCHANGED <<body, objects, currentAgent, agents, tokens>>

BecomeCandidate(p) ==
  /\ state[p] = "Idle"
  /\ NbrDirs(p) \notin {{}, Dir}
  /\ agents' = [agents EXCEPT ![p] = NewAgents(p)]
  /\ state' = [state EXCEPT ![p] = "Candidate"]
  /\ UNCHANGED <<body, objects, currentAgent, tokens>>

\* randBool(), which only an agent that flips coins draws.
Coins(p) ==
  IF agents[p][currentAgent[p]].subPhase = "CoinFlipping" THEN BOOLEAN ELSE {FALSE}

\* The next agent in turn is activated, with passTokensDir drawn.
ActivateAgent(p, passTokensDir) ==
  /\ state[p] = "Candidate"
  /\ \E coin \in Coins(p) :
       \E s \in {AgentActivates([p |-> p, a |-> agents[p][currentAgent[p]], tokens |-> tokens],
                               passTokensDir, coin)} :
         /\ agents' = [agents EXCEPT ![p][currentAgent[p]] = s.a]
         /\ tokens' = s.tokens
         /\ \/ body \in Retrying
            \/ agents[p][currentAgent[p]].subPhase # "SolitudeVerification"
            \/ s.a.subPhase = "SolitudeVerification"
  /\ currentAgent' = [currentAgent EXCEPT ![p] = (@ % Len(agents[p])) + 1]
  /\ LET agentStates == {agents'[p][i].agentState : i \in DOMAIN agents[p]}
     IN  state' = [state EXCEPT ![p] = IF "Leader" \in agentStates THEN "Leader"
                                       ELSE IF agentStates = {"Finished"} THEN "Finished" ELSE @]
  /\ UNCHANGED <<body, objects>>

\* activate(); leaders and finished particles do nothing.
Activate(p) ==
  \/ NeedNoAgents(p) \/ BecomeCandidate(p)
  \/ \E passTokensDir \in {0, 1} : ActivateAgent(p, passTokensDir)

Next == \E p \in particles : Activate(p)

HasTerminated == \A p \in particles : state[p] \in {"Leader", "Finished"}

Spec == Init /\ [][Next]_vars

-----------------------------------------------------------------------------
(* Properties                                                              *)

States == {"Idle", "Candidate", "SoleCandidate", "Demoted", "Leader", "Finished"}
Flags ==
  {"comparingSegment", "isCoveredCandidate", "absorbedActiveToken", "generatedCleanToken",
   "gotAnnounceInCompare", "gotAnnounceBeforeAck", "waitingForTransferAck", "createdLead",
   "hasGeneratedTokens", "testingBorder"}
Types ==
  {"SegmentLead", "PassiveSegment", "ActiveSegment", "PassiveSegmentClean", "ActiveSegmentClean",
   "FinalSegmentClean", "CandidacyAnnounce", "CandidacyAck", "SolitudeActive", "BorderTest"}
    \cup VectorTokens

Agent ==
  [localId : 1..3, agentDir : Dir, nextAgentDir : Dir, prevAgentDir : Dir,
   agentState : States \ {"Idle"}, flags : SUBSET Flags,
   subPhase : {"SegmentComparison", "CoinFlipping", "SolitudeVerification"}]
Token == [type : Types, origin : Dir, flag : BOOLEAN, number : -1..4, turn : Dir]

\* The type invariant.
TypeOK ==
  \A p \in particles :
    /\ state[p] \in States
    /\ \A i \in DOMAIN agents[p] : agents[p][i] \in Agent
    /\ currentAgent[p] \in 1..3
    /\ \A i \in DOMAIN tokens[p] : tokens[p][i] \in Token

AgentIds == UNION {{<<p, i>> : i \in DOMAIN agents[p]} : p \in particles}
Of(x)    == agents[x[1]][x[2]]
View(x)  == [p |-> x[1], a |-> Of(x), tokens |-> tokens]

\* The assertions of the agents are never wrong: a neighbour that has agents
\* has the next one of the boundary and the previous one, no candidate has
\* absorbed a token of another segment, and the vectors that are left to a
\* candidate when its solitude token is back have settled.
AssertionsHold ==
  \A x \in AgentIds :
    /\ agents[NbrAtLabel(x[1], Of(x).nextAgentDir)] # << >> => NextAgent(View(x)) # {}
    /\ agents[NbrAtLabel(x[1], Of(x).prevAgentDir)] # << >> => PrevAgent(View(x)) # {}
    /\ Of(x).agentState = "Candidate" => ~ Is(View(x), "absorbedActiveToken")
    /\ Of(x).agentState = "Candidate" /\ Is(View(x), "createdLead") /\ ReturnedAtNext(View(x)) =>
         "unsettled" \notin {CheckX(SettleVectors(View(x))), CheckY(SettleVectors(View(x)))}

\* The tokens that are passed ahead, to the next agent each time.
GoesAhead(token) ==
  \/ token.type \in {"SegmentLead", "PassiveSegmentClean", "FinalSegmentClean",
                     "CandidacyAnnounce", "BorderTest"}
  \/ token.type = "SolitudeActive" /\ token.number = -1
IsFor(token, a) == token.origin = IF GoesAhead(token) THEN a.prevAgentDir ELSE a.nextAgentDir

\* Every token that a particle holds is for one of its agents, which finds it
\* by its type and its origin, and for no other.
TokensAddressed ==
  \A p \in particles : agents[p] # << >> =>
    \A j \in DOMAIN tokens[p] :
      \E i \in DOMAIN agents[p] :
        \A k \in DOMAIN agents[p] : IsFor(tokens[p][j], agents[p][k]) <=> k = i

\* The agents are rings, whose tokens go where they are looked for.
WellFormed == TypeOK /\ AssertionsHold /\ TokensAddressed

Contenders == {x \in AgentIds : Of(x).agentState \in {"Candidate", "SoleCandidate", "Leader"}}

\* Tokens carry only local identifiers, and some are left over from candidates
\* that have been demoted since; still an agent that takes itself for the only
\* candidate of its boundary is, the boundary whose turns it adds up is found to
\* turn five times or minus one, as it asserts, and an election that ends has
\* one leader.  The shapes have no holes, so there is one boundary.
SoleIsAlone ==
  /\ \A x \in Contenders : Of(x).agentState # "Candidate" => Contenders = {x}
  /\ \A x \in Contenders :
       Of(x).agentState = "SoleCandidate" /\ AtPrev(View(x), "BorderTest") =>
         PrevToken(View(x), "BorderTest").number \in {1, 4}
  /\ HasTerminated => Cardinality({p \in particles : state[p] = "Leader"}) = 1

\* The agents of a boundary are a ring; NextOf(x) is the one after x.
NextOf(x) ==
  LET q == NbrAtLabel(x[1], Of(x).nextAgentDir)
  IN  CHOOSE y \in AgentIds : y[1] = q /\ Of(y).prevAgentDir = LabelTo(q, x[1])

\* The agents after x up to the next contender, which may be x.
Front(x) ==
  LET upTo[y \in AgentIds] == IF y \in Contenders THEN {y} ELSE {y} \cup upTo[NextOf(y)]
  IN  upTo[NextOf(x)]

\* The agents of the segment after x at which a token is on its way ahead, and
\* on its way back to x.
Outbound(x, type) ==
  {y \in Front(x) : \E i \in Positions(tokens[y[1]], type, Of(y).prevAgentDir) :
                      type = "SolitudeActive" => tokens[y[1]][i].number = -1}
Inbound(x, type) ==
  {y \in {x} \cup (Front(x) \ Contenders) :
     \E i \in Positions(tokens[y[1]], type, Of(y).nextAgentDir) :
       /\ type = "SolitudeActive" => tokens[y[1]][i].number # -1
       /\ type \in {"PassiveSegment", "ActiveSegment"} => tokens[y[1]][i].flag}

\* What a candidate waits for is under way, and has not been cleaned away with
\* the tokens of another candidate: the length of its segment, which is counted
\* ahead and compared in the segment behind; its announcement, or the answer;
\* its solitude token.
AnswerUnderWay ==
  (\A p \in particles : state[p] # "Idle") =>
  \A x \in Contenders : Of(x).agentState = "Candidate" =>
    /\ Is(View(x), "comparingSegment") =>
         \/ Outbound(x, "SegmentLead") \cup Inbound(x, "PassiveSegment") # {}
         \/ \E w \in Contenders :
              /\ x \in Front(w)
              /\ Inbound(w, "ActiveSegment") \cup Outbound(w, "FinalSegmentClean") # {}
    /\ Is(View(x), "waitingForTransferAck") =>
         Outbound(x, "CandidacyAnnounce") \cup Inbound(x, "CandidacyAck") # {}
    /\ Is(View(x), "createdLead") =>
         Outbound(x, "SolitudeActive") \cup Inbound(x, "SolitudeActive") # {}
=============================================================================
