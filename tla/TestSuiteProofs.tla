--------------------------- MODULE TestSuiteProofs ---------------------------
(***************************************************************************)
(* For any number of suites and tests, whatever snapshots the suites take  *)
(* of their own and whatever their tests do: inside a suite its snapshot   *)
(* is never lost, every suite starts on the market as deployed, and a test *)
(* that passes has told the truth about its story.                         *)
(***************************************************************************)
EXTENDS TestSuite, TLAPS

InSuite == {"own before", "own snapshot", "beforeEach", "test", "afterEach"}
Phases == {"setup", "before", "after", "end"} \cup InSuite

(* A suite is open, and no hook has failed before its last one.            *)
Open == runner.phase \in InSuite \/ (runner.phase = "after" /\ ~runner.failed)

TypesInv ==
    /\ runner \in [phase : Phases, suite : Nat, test : Nat,
                   failed : BOOLEAN, lost : BOOLEAN]
    /\ usingTenderly \in BOOLEAN
    /\ \A t \in pending : ~t.awaited

(* The node gives its ids in order.                                        *)
IdsInv ==
    /\ nextSnapshot \in Nat
    /\ DOMAIN snapshots \subseteq 0..(nextSnapshot - 1)
    /\ HardhatSnapshotId \in 0..(nextSnapshot - 1)
    /\ snap \in 0..(nextSnapshot - 1)

(* The suite's snapshot, or its head, is the deployment.                   *)
KeptInv ==
    Open => IF usingTenderly THEN Awaited(head) = Deployed
            ELSE /\ HardhatSnapshotId \in DOMAIN snapshots
                 /\ Awaited(snapshots[HardhatSnapshotId]) = Deployed

(* A spec's own snapshot was taken after the suite's, or is used up.       *)
OwnInv ==
    ~usingTenderly =>
    /\ Open /\ snap \in DOMAIN snapshots => HardhatSnapshotId < snap
    /\ runner.phase \in {"setup", "before"} => snap \notin DOMAIN snapshots

FreshInv ==
    /\ runner.phase = "setup" => Awaited(chain) = {}
    /\ runner.phase = "before" => Awaited(chain) = Deployed

IInv == TypesInv /\ IdsInv /\ KeptInv /\ OwnInv /\ FreshInv

-----------------------------------------------------------------------------
(* What the node's two calls do to the ids and to the snapshots before.    *)
LEMMA SnapshotTaken ==
    ASSUME IdsInv, evmSnapshot
    PROVE  /\ nextSnapshot' = nextSnapshot + 1
           /\ DOMAIN snapshots' = DOMAIN snapshots \cup {nextSnapshot}
           /\ nextSnapshot \notin DOMAIN snapshots
           /\ snapshots'[nextSnapshot] = chain
           /\ \A i \in DOMAIN snapshots : snapshots'[i] = snapshots[i]
           /\ UNCHANGED <<chain, pending>>
BY DEF IdsInv, evmSnapshot

LEMMA Reverted ==
    ASSUME NEW id, IdsInv, id \in Nat, evmRevert(id)
    PROVE  /\ nextSnapshot' = nextSnapshot /\ pending' = pending
           /\ DOMAIN snapshots' \subseteq DOMAIN snapshots
           /\ id \notin DOMAIN snapshots'
           /\ \A i \in DOMAIN snapshots' : snapshots'[i] = snapshots[i]
           /\ \A i \in DOMAIN snapshots :
                (id \in DOMAIN snapshots => i < id) => i \in DOMAIN snapshots'
           /\ id \in DOMAIN snapshots => chain' = snapshots[id]
<1>1. \A i \in DOMAIN snapshots : i \in Nat
  BY DEF IdsInv
<1>2. CASE id \in DOMAIN snapshots
  BY <1>1, <1>2 DEF evmRevert
<1>3. CASE id \notin DOMAIN snapshots
  BY <1>3 DEF evmRevert
<1> QED BY <1>2, <1>3

(* A step inside a suite that leaves the snapshots alone.                  *)
LEMMA SnapshotsLeft ==
    ASSUME IInv, runner.phase \in InSuite, runner'.phase \in InSuite \cup {"after"},
           TypesInv', UNCHANGED <<snapshots, nextSnapshot, suiteVars, snap>>
    PROVE  IInv'
<1>1. Open
  BY DEF Open
<1>2. KeptInv'
  BY <1>1 DEF IInv, KeptInv, suiteVars, Awaited
<1>3. OwnInv'
  BY <1>1 DEF IInv, OwnInv, suiteVars, InSuite
<1> QED BY <1>2, <1>3 DEF IInv, IdsInv, FreshInv, InSuite, suiteVars

(* A step inside a suite that takes a snapshot of the spec's own.          *)
LEMMA OwnSnapshotTaken ==
    ASSUME IInv, runner.phase \in InSuite, runner'.phase \in InSuite, TypesInv',
           evmSnapshot, snap' = nextSnapshot, UNCHANGED suiteVars
    PROVE  IInv'
<1>1. Open
  BY DEF Open
<1>2. IdsInv
  BY DEF IInv
<1>3. IdsInv'
  BY <1>2, SnapshotTaken DEF IdsInv, suiteVars
<1>4. KeptInv'
  BY <1>1, <1>2, SnapshotTaken DEF IInv, KeptInv, suiteVars, Awaited
<1>5. OwnInv'
  <2>1. HardhatSnapshotId' < snap'
    BY <1>2 DEF IdsInv, suiteVars
  <2> QED BY <2>1 DEF OwnInv, InSuite
<1> QED BY <1>3, <1>4, <1>5 DEF IInv, FreshInv, InSuite

(* A step inside a suite that reverts to the spec's own.                   *)
LEMMA OwnSnapshotUsed ==
    ASSUME IInv, runner.phase \in InSuite, runner'.phase \in InSuite \cup {"after"},
           TypesInv', evmRevert(snap), UNCHANGED <<suiteVars, snap>>
    PROVE  IInv'
<1>1. Open
  BY DEF Open
<1>2. IdsInv /\ snap \in Nat
  BY DEF IInv, IdsInv
<1>3. IdsInv'
  BY <1>2, Reverted DEF IdsInv, suiteVars
<1>4. KeptInv'
  <2>1. CASE usingTenderly
    BY <1>1, <2>1 DEF IInv, KeptInv, suiteVars, Awaited
  <2>2. CASE ~usingTenderly
    <3>1. /\ HardhatSnapshotId \in DOMAIN snapshots
          /\ Awaited(snapshots[HardhatSnapshotId]) = Deployed
          /\ snap \in DOMAIN snapshots => HardhatSnapshotId < snap
      BY <1>1, <2>2 DEF IInv, KeptInv, OwnInv
    <3>2. /\ HardhatSnapshotId \in DOMAIN snapshots'
          /\ snapshots'[HardhatSnapshotId] = snapshots[HardhatSnapshotId]
      BY <1>2, <3>1, Reverted
    <3> QED BY <2>2, <3>1, <3>2 DEF KeptInv, suiteVars, Awaited
  <2> QED BY <2>1, <2>2
<1>5. OwnInv'
  BY <1>2, Reverted DEF OwnInv, InSuite
<1> QED BY <1>3, <1>4, <1>5 DEF IInv, FreshInv, InSuite

-----------------------------------------------------------------------------
LEMMA InitIInv == Init => IInv
BY DEF Init, IInv, TypesInv, IdsInv, KeptInv, OwnInv, FreshInv, Open, Phases, InSuite, Awaited

LEMMA SetupKeeps == ASSUME IInv, initializeMakeSuite PROVE IInv'
<1>1. TypesInv'
  BY DEF IInv, TypesInv, initializeMakeSuite, Goes, Loses, suiteVars, Phases
<1>2. IdsInv'
  BY DEF IInv, IdsInv, initializeMakeSuite, suiteVars
<1>3. runner'.phase \in {"before", "end"}
  BY DEF IInv, TypesInv, initializeMakeSuite, Goes, Loses
<1>4. KeptInv'
  BY <1>3 DEF KeptInv, Open, InSuite
<1>5. OwnInv'
  BY <1>3 DEF IInv, OwnInv, Open, InSuite, initializeMakeSuite, suiteVars
<1>6. FreshInv'
  <2>1. Awaited(chain) = {}
    BY DEF IInv, FreshInv, initializeMakeSuite
  <2>2. CASE chain' = chain \cup Deployed
    <3>1. Awaited(chain') = Deployed
      BY <2>1, <2>2 DEF Awaited, Deployed, AdminSetup
    <3> QED BY <1>3, <3>1 DEF FreshInv, Awaited
  <2>3. CASE Loses("end")
    BY <2>3 DEF FreshInv, Loses, IInv, TypesInv
  <2> QED BY <2>2, <2>3 DEF initializeMakeSuite
<1> QED BY <1>1, <1>2, <1>4, <1>5, <1>6 DEF IInv

LEMMA BeforeSuiteKeeps == ASSUME IInv, BeforeSuite PROVE IInv'
<1>1. CASE setSnapshot /\ Goes("own before")
  <2>1. runner'.phase = "own before" /\ UNCHANGED snap
    BY <1>1 DEF IInv, TypesInv, Goes, BeforeSuite
  <2>2. Awaited(chain) = Deployed
    BY DEF IInv, FreshInv, BeforeSuite
  <2>3. CASE usingTenderly
    <3>1. head' = chain /\ UNCHANGED <<nodeVars, HardhatSnapshotId, usingTenderly>>
      BY <1>1, <2>3 DEF setSnapshot
    <3>2. TypesInv'
      BY <1>1, <3>1 DEF IInv, TypesInv, Goes, nodeVars, Phases, InSuite
    <3> QED BY <2>1, <2>2, <2>3, <3>1, <3>2
            DEF IInv, IdsInv, KeptInv, OwnInv, FreshInv, nodeVars, Awaited
  <2>4. CASE ~usingTenderly
    <3>1. /\ evmSnapshot /\ HardhatSnapshotId' = nextSnapshot
          /\ UNCHANGED <<head, usingTenderly>>
      BY <1>1, <2>4 DEF setSnapshot
    <3>2. IdsInv /\ snap \notin DOMAIN snapshots
      BY <2>4 DEF IInv, OwnInv, BeforeSuite
    <3>3. TypesInv'
      BY <1>1, <3>1, <3>2, SnapshotTaken DEF IInv, TypesInv, Goes, Phases, InSuite
    <3>4. /\ DOMAIN snapshots' = DOMAIN snapshots \cup {nextSnapshot}
          /\ nextSnapshot' = nextSnapshot + 1
          /\ HardhatSnapshotId' = nextSnapshot /\ snap' = snap
      BY <2>1, <3>1, <3>2, SnapshotTaken
    <3>5. IdsInv'
      BY <3>2, <3>4 DEF IdsInv
    <3>6. KeptInv'
      BY <2>2, <2>4, <3>1, <3>2, SnapshotTaken DEF KeptInv, Awaited
    <3>7. snap' \notin DOMAIN snapshots'
      BY <3>2, <3>4 DEF IdsInv
    <3> QED BY <2>1, <3>3, <3>5, <3>6, <3>7 DEF IInv, OwnInv, FreshInv
  <2> QED BY <2>3, <2>4
<1>2. CASE Loses("after") /\ UNCHANGED <<nodeVars, suiteVars>>
  <2>1. runner'.phase = "after" /\ runner'.failed /\ UNCHANGED snap
    BY <1>2 DEF IInv, TypesInv, Loses, BeforeSuite
  <2>2. TypesInv'
    BY <1>2 DEF IInv, TypesInv, Loses, nodeVars, suiteVars, Phases
  <2>3. ~Open'
    BY <2>1 DEF Open, InSuite
  <2> QED BY <1>2, <2>1, <2>2, <2>3
          DEF IInv, IdsInv, KeptInv, OwnInv, FreshInv, nodeVars, suiteVars
<1> QED BY <1>1, <1>2 DEF BeforeSuite

LEMMA PreparesKeeps == ASSUME IInv, PreparesTheMarket PROVE IInv'
<1>1. runner.phase \in InSuite /\ runner'.phase \in InSuite
  BY DEF IInv, TypesInv, PreparesTheMarket, Goes, InSuite
<1>2. TypesInv'
  BY DEF IInv, TypesInv, PreparesTheMarket, Goes, suiteVars, Phases, InSuite
<1> QED BY <1>1, <1>2, SnapshotsLeft DEF PreparesTheMarket

LEMMA OwnBeforeKeeps == ASSUME IInv, OwnBefore PROVE IInv'
<1>1. runner.phase \in InSuite /\ runner'.phase \in InSuite \cup {"after"}
  BY DEF IInv, TypesInv, OwnBefore, Loses, InSuite
<1>2. TypesInv'
  <2>1. pending' = pending
    BY DEF OwnBefore, evmSnapshot, nodeVars
  <2>2. runner' \in [phase : Phases, suite : Nat, test : Nat,
                     failed : BOOLEAN, lost : BOOLEAN]
    <3>1. CASE runner' = [runner EXCEPT !.phase = "beforeEach", !.test = 1]
      BY <3>1 DEF IInv, TypesInv, Phases, InSuite
    <3>2. CASE Loses("after")
      BY <3>2 DEF IInv, TypesInv, Loses, Phases
    <3> QED BY <3>1, <3>2 DEF OwnBefore
  <2> QED BY <2>1, <2>2 DEF IInv, TypesInv, OwnBefore, suiteVars
<1>3. CASE evmSnapshot /\ snap' = nextSnapshot /\ runner'.phase \in InSuite
  BY <1>1, <1>2, <1>3, OwnSnapshotTaken DEF OwnBefore
<1>4. CASE UNCHANGED <<nodeVars, snap>>
  BY <1>1, <1>2, <1>4, SnapshotsLeft DEF OwnBefore, nodeVars
<1> QED BY <1>3, <1>4 DEF IInv, TypesInv, OwnBefore, InSuite

LEMMA BeforeEachKeeps == ASSUME IInv, BeforeEach PROVE IInv'
<1>1. runner.phase \in InSuite /\ runner'.phase \in InSuite
  BY DEF IInv, TypesInv, BeforeEach, Goes, Loses, InSuite
<1>2. TypesInv'
  <2>1. pending' = pending
    BY DEF BeforeEach, evmSnapshot, evmRevert, nodeVars
  <2> QED BY <2>1 DEF IInv, TypesInv, BeforeEach, Goes, Loses, Phases, InSuite
<1>3. UNCHANGED suiteVars
  BY DEF BeforeEach, KeptApart, suiteVars
<1>4. CASE evmSnapshot /\ KeptApart
  BY <1>1, <1>2, <1>3, <1>4, OwnSnapshotTaken DEF KeptApart
<1>5. CASE evmRevert(snap) /\ UNCHANGED snap
  BY <1>1, <1>2, <1>3, <1>5, OwnSnapshotUsed
<1>6. CASE UNCHANGED <<nodeVars, snap>>
  BY <1>1, <1>2, <1>3, <1>6, SnapshotsLeft DEF nodeVars
<1> QED BY <1>4, <1>5, <1>6 DEF BeforeEach

LEMMA AfterEachKeeps == ASSUME IInv, AfterEach PROVE IInv'
<1>1. runner.phase \in InSuite /\ runner'.phase \in InSuite \cup {"after"}
  BY DEF IInv, TypesInv, AfterEach, Loses, PhaseAfterTest, InSuite
<1>2. TypesInv'
  <2>1. pending' = pending
    BY DEF AfterEach, evmRevert, nodeVars
  <2>2. runner' \in [phase : Phases, suite : Nat, test : Nat,
                     failed : BOOLEAN, lost : BOOLEAN]
    <3> DEFINE test == IF runner.test = Tests THEN runner.test ELSE runner.test + 1
    <3> runner.test \in Nat
      BY DEF IInv, TypesInv
    <3>1. PhaseAfterTest(runner.failed) \in Phases /\ test \in Nat
      BY DEF PhaseAfterTest, Phases, InSuite
    <3>2. CASE runner' = [runner EXCEPT !.phase = PhaseAfterTest(runner.failed), !.test = test]
      BY <3>1, <3>2 DEF IInv, TypesInv
    <3>3. CASE Loses("after")
      BY <3>3 DEF IInv, TypesInv, Loses, Phases
    <3> QED BY <3>2, <3>3 DEF AfterEach
  <2> QED BY <2>1, <2>2 DEF IInv, TypesInv, AfterEach, suiteVars
<1>3. CASE evmRevert(snap)
  BY <1>1, <1>2, <1>3, OwnSnapshotUsed DEF AfterEach
<1>4. CASE UNCHANGED nodeVars
  BY <1>1, <1>2, <1>4, SnapshotsLeft DEF AfterEach, nodeVars
<1> QED BY <1>3, <1>4 DEF AfterEach

(* The suite's last hook: without a failure so far the snapshot is there,  *)
(* and the chain is what the next suite starts on.                         *)
LEMMA AfterSuiteKeeps == ASSUME IInv, AfterSuite PROVE IInv'
<1> PICK lost \in BOOLEAN :
      LET failed == runner.failed \/ lost
          phase == PhaseAfterSuite(failed)
      IN  /\ runner' = [phase |-> phase, test |-> 0, failed |-> failed,
                        suite |-> IF phase = "before" THEN runner.suite + 1 ELSE runner.suite,
                        lost |-> runner.lost \/ lost]
          /\ IF lost THEN UNCHANGED nodeVars ELSE revertHead
  BY DEF AfterSuite
<1>1. /\ runner'.phase \in {"before", "end"}
      /\ runner'.phase = "before" => ~runner.failed /\ ~lost
  BY DEF PhaseAfterSuite
<1>2. ~Open'
  BY <1>1 DEF Open, InSuite
<1>3. IdsInv /\ HardhatSnapshotId \in Nat
  BY DEF IInv, IdsInv
<1>4. TypesInv'
  <2>1. pending' = pending
    BY DEF revertHead, evmRevert, nodeVars
  <2> QED BY <2>1 DEF IInv, TypesInv, AfterSuite, PhaseAfterSuite, suiteVars, Phases
<1>5. IdsInv'
  <2>1. nextSnapshot' = nextSnapshot /\ DOMAIN snapshots' \subseteq DOMAIN snapshots
    BY <1>3, Reverted DEF revertHead, nodeVars
  <2> QED BY <1>3, <2>1 DEF IdsInv, AfterSuite, suiteVars
<1>6. (OwnInv /\ FreshInv)'
  <2>1. SUFFICES ASSUME runner'.phase = "before"
                 PROVE  (OwnInv /\ FreshInv)'
    BY <1>1, <1>2 DEF OwnInv, FreshInv
  <2>2. revertHead /\ Open
    BY <1>1, <2>1 DEF AfterSuite, Open
  <2>3. CASE usingTenderly
    <3>1. chain' = head /\ Awaited(head) = Deployed /\ usingTenderly'
      BY <2>2, <2>3 DEF revertHead, IInv, KeptInv, AfterSuite, suiteVars
    <3> QED BY <2>1, <3>1 DEF OwnInv, FreshInv, Awaited
  <2>4. CASE ~usingTenderly
    <3>1. /\ HardhatSnapshotId \in DOMAIN snapshots
          /\ Awaited(snapshots[HardhatSnapshotId]) = Deployed
          /\ snap \in DOMAIN snapshots => HardhatSnapshotId < snap
      BY <2>2, <2>4 DEF IInv, KeptInv, OwnInv
    <3>2. evmRevert(HardhatSnapshotId)
      BY <2>2, <2>4 DEF revertHead
    <3>3. chain' = snapshots[HardhatSnapshotId]
      BY <1>3, <3>1, <3>2, Reverted
    <3>4. \A i \in DOMAIN snapshots' : i < HardhatSnapshotId
      BY <3>1, <3>2 DEF evmRevert
    <3>5. snap' \notin DOMAIN snapshots'
      <4>1. SUFFICES ASSUME snap \in DOMAIN snapshots'
                     PROVE  FALSE
        BY DEF AfterSuite
      <4>2. snap \in DOMAIN snapshots /\ snap < HardhatSnapshotId
        BY <1>3, <3>2, <3>4, <4>1, Reverted
      <4> QED BY <1>3, <3>1, <4>2 DEF IdsInv
    <3> QED BY <1>2, <2>1, <3>1, <3>3, <3>5 DEF OwnInv, FreshInv, Awaited
  <2> QED BY <2>3, <2>4
<1> QED BY <1>2, <1>4, <1>5, <1>6 DEF IInv, KeptInv

LEMMA ActionsKeep ==
    ASSUME IInv,
           \/ ActionLacksArguments \/ ActionSkipped \/ ActionLeftFloating
           \/ ActionExecuted \/ StoryEnds
    PROVE  IInv'
<1>1. /\ runner.phase = "test" /\ runner'.phase \in InSuite
      /\ UNCHANGED <<snapshots, nextSnapshot, suiteVars, snap>>
      /\ runner' \in [phase : Phases, suite : Nat, test : Nat,
                      failed : BOOLEAN, lost : BOOLEAN]
  <2>1. UNCHANGED runner \/ Fails("afterEach") \/ Goes("afterEach")
    BY DEF ActionLacksArguments, ActionSkipped, ActionLeftFloating, ActionExecuted,
           StoryEnds, GoesOn, Stops
  <2>2. runner.phase = "test"
    BY DEF ActionLacksArguments, ActionSkipped, ActionLeftFloating, ActionExecuted,
           StoryEnds, Testing
  <2>3. /\ runner'.phase \in InSuite
        /\ runner' \in [phase : Phases, suite : Nat, test : Nat,
                        failed : BOOLEAN, lost : BOOLEAN]
    BY <2>1, <2>2 DEF IInv, TypesInv, Fails, Goes, Phases, InSuite
  <2>4. UNCHANGED <<snapshots, nextSnapshot, suiteVars, snap>>
    BY DEF ActionLacksArguments, ActionSkipped, ActionLeftFloating, ActionExecuted,
           StoryEnds, nodeVars
  <2> QED BY <2>2, <2>3, <2>4
<1>2. \A t \in pending' : ~t.awaited
  <2>1. CASE pending' = pending
    BY <2>1 DEF IInv, TypesInv
  <2>2. CASE pending' = pending \cup {Tx(Len(done) + 1, FALSE)}
    <3>1. ~Tx(Len(done) + 1, FALSE).awaited
      BY DEF Tx
    <3> QED BY <2>2, <3>1 DEF IInv, TypesInv
  <2> QED BY <2>1, <2>2 DEF ActionLacksArguments, ActionSkipped, ActionLeftFloating,
                            ActionExecuted, StoryEnds, nodeVars
<1>3. TypesInv'
  BY <1>1, <1>2 DEF IInv, TypesInv, suiteVars
<1>4. runner.phase \in InSuite
  BY <1>1 DEF InSuite
<1> QED BY <1>1, <1>3, <1>4, SnapshotsLeft

(* What nobody waited for changes nothing anybody did wait for.            *)
LEMMA FloatingKeeps == ASSUME IInv, FloatingTransaction PROVE IInv'
<1> PICK t \in pending : /\ pending' = pending \ {t}
                          /\ chain' \in {chain, chain \cup {t}}
  BY DEF FloatingTransaction
<1>1. UNCHANGED <<runner, snapshots, nextSnapshot, suiteVars, snap>>
  BY DEF FloatingTransaction
<1>2. Awaited(chain') = Awaited(chain)
  BY DEF IInv, TypesInv, Awaited
<1> QED BY <1>1, <1>2 DEF IInv, TypesInv, IdsInv, KeptInv, OwnInv, FreshInv, Open,
                          suiteVars, Awaited

LEMMA StepIInv == IInv /\ [Next]_vars => IInv'
<1> SUFFICES ASSUME IInv, [Next]_vars PROVE IInv'
  OBVIOUS
<1>1. CASE UNCHANGED vars
  BY <1>1 DEF IInv, TypesInv, IdsInv, KeptInv, OwnInv, FreshInv, Open, Awaited,
              vars, nodeVars, suiteVars
<1>2. CASE RunnerStep
  BY <1>2, SetupKeeps, BeforeSuiteKeeps, PreparesKeeps, OwnBeforeKeeps, BeforeEachKeeps,
     ActionsKeep, AfterEachKeeps, AfterSuiteKeeps DEF RunnerStep
<1> QED BY <1>1, <1>2, FloatingKeeps DEF Next

THEOREM Invariant == Spec => []IInv
BY InitIInv, StepIInv, PTL DEF Spec

(* However many suites and tests there are, whatever the suites snapshot   *)
(* and revert of their own and whatever their stories do, a suite's        *)
(* snapshot outlives its tests (make-suite.ts, HardhatSnapshotId).         *)
THEOREM SuiteSnapshotAlwaysKept == Spec => []SuiteSnapshotKept
<1>1. IInv => SuiteSnapshotKept
  BY DEF IInv, KeptInv, SuiteSnapshotKept, Open, InSuite
<1> QED BY <1>1, Invariant, PTL

(* And every suite starts on the market as it was deployed, however the    *)
(* ones before it ended (revertHead with Mocha's bail).                    *)
THEOREM SuitesAlwaysStartOnDeployedChain == Spec => []SuitesStartOnDeployedChain
<1>1. IInv => SuitesStartOnDeployedChain
  BY DEF IInv, FreshInv, SuitesStartOnDeployedChain
<1> QED BY <1>1, Invariant, PTL

-----------------------------------------------------------------------------
(* What a suite that takes a snapshot before each test keeps besides.      *)
Untouched(transactions) == \A t \in Awaited(transactions) : t.test = 0
EachTime == Kind[runner.suite] = "each"

PreparedInv ==
    runner.phase \in {"before", "own before", "own snapshot"}
    => Untouched(chain) /\ runner.test = 0
EachInv ==
    EachTime =>
    /\ runner.phase = "beforeEach" => Untouched(chain)
    /\ runner.phase = "test" \/ (runner.phase = "afterEach" /\ ~runner.failed)
       => snap \in DOMAIN snapshots /\ Untouched(snapshots[snap])

JInv == PreparedInv /\ EachInv /\ (runner.phase = "setup" => runner.test = 0)

LEMMA DeployedUntouched ==
    ASSUME NEW transactions, Awaited(transactions) = Deployed PROVE Untouched(transactions)
BY DEF Untouched, Deployed, AdminSetup

LEMMA InitJInv == Init => JInv
BY DEF Init, JInv, PreparedInv, EachInv

LEMMA BeforeTestsJ ==
    ASSUME IInv, JInv, initializeMakeSuite \/ BeforeSuite \/ PreparesTheMarket
    PROVE  JInv'
<1>1. CASE initializeMakeSuite
  <2>1. (PreparedInv /\ EachInv)'
    <3>1. CASE Loses("end")
      BY <3>1 DEF IInv, TypesInv, Loses, PreparedInv, EachInv
    <3>2. CASE Goes("before")
      <4>1. runner'.phase = "before" /\ runner'.test = 0
        BY <1>1, <3>2 DEF IInv, TypesInv, JInv, Goes, initializeMakeSuite
      <4>2. Awaited(chain') = Deployed
        BY <1>1, <4>1, SetupKeeps DEF IInv, FreshInv, Awaited
      <4> QED BY <4>1, <4>2, DeployedUntouched DEF PreparedInv, EachInv, Untouched, Awaited
    <3> QED BY <1>1, <3>1, <3>2 DEF initializeMakeSuite
  <2> QED BY <1>1, <2>1 DEF JInv, initializeMakeSuite, IInv, TypesInv, Goes, Loses
<1>2. CASE BeforeSuite
  <2>1. runner.phase = "before" /\ runner.test = 0 /\ Untouched(chain)
    BY <1>2 DEF BeforeSuite, JInv, PreparedInv
  <2>2. /\ runner'.phase \in {"own before", "after"} /\ runner'.test = 0
        /\ chain' = chain
    BY <1>2, <2>1 DEF BeforeSuite, IInv, TypesInv, Goes, Loses, setSnapshot, evmSnapshot, nodeVars
  <2> QED BY <2>1, <2>2 DEF JInv, PreparedInv, EachInv, Untouched, Awaited
<1>3. CASE PreparesTheMarket
  <2>1. runner.test = 0 /\ Untouched(chain)
    BY <1>3 DEF PreparesTheMarket, JInv, PreparedInv
  <2>2. runner'.phase = "own snapshot" /\ runner'.test = 0
    BY <1>3, <2>1 DEF PreparesTheMarket, IInv, TypesInv, Goes
  <2>3. chain' = chain \cup {Tx(0, TRUE)} /\ Tx(0, TRUE).test = 0
    BY <1>3, <2>1 DEF PreparesTheMarket, Tx
  <2> QED BY <2>1, <2>2, <2>3 DEF JInv, PreparedInv, EachInv, Untouched, Awaited
<1> QED BY <1>1, <1>2, <1>3

LEMMA AroundTestsJ ==
    ASSUME IInv, JInv, OwnBefore \/ BeforeEach \/ AfterEach \/ AfterSuite
    PROVE  JInv'
<1>1. CASE OwnBefore
  <2>1. /\ runner'.phase \in {"beforeEach", "after"}
        /\ chain' = chain /\ Untouched(chain)
    BY <1>1 DEF OwnBefore, IInv, TypesInv, Loses, JInv, PreparedInv, evmSnapshot, nodeVars
  <2> QED BY <2>1 DEF JInv, PreparedInv, EachInv, Untouched, Awaited
<1>2. CASE BeforeEach
  <2>1. CASE Loses("afterEach")
    <3>1. runner'.phase = "afterEach" /\ runner'.failed
      BY <2>1 DEF IInv, TypesInv, Loses
    <3> QED BY <3>1 DEF JInv, PreparedInv, EachInv
  <2>2. CASE Goes("test") /\ EachTime
    <3>1. runner'.phase = "test" /\ Untouched(chain)
      BY <1>2, <2>2 DEF BeforeEach, IInv, TypesInv, Goes, JInv, EachInv
    <3>2. CASE evmSnapshot /\ KeptApart
      <4>1. snap' \in DOMAIN snapshots' /\ snapshots'[snap'] = chain
        BY <3>2, SnapshotTaken DEF IInv, KeptApart
      <4> QED BY <3>1, <4>1 DEF JInv, PreparedInv, EachInv, Untouched, Awaited
    <3>3. CASE Loses("afterEach")
      BY <2>1, <3>3 DEF IInv, TypesInv, Loses, JInv, PreparedInv, EachInv
    <3> QED BY <1>2, <2>2, <3>2, <3>3 DEF BeforeEach, TakesSnapshot, EachTime
  <2>3. CASE Goes("test") /\ ~EachTime
    <3>1. runner'.phase = "test" /\ ~EachTime'
      BY <2>3 DEF IInv, TypesInv, Goes, EachTime
    <3> QED BY <3>1 DEF JInv, PreparedInv, EachInv
  <2> QED BY <1>2, <2>1, <2>2, <2>3 DEF BeforeEach
<1>3. CASE AfterEach
  <2>1. runner'.phase \in {"beforeEach", "after"}
    BY <1>3 DEF AfterEach, IInv, TypesInv, Loses, PhaseAfterTest
  <2>2. ASSUME runner'.phase = "beforeEach", EachTime'
        PROVE  Untouched(chain')
    <3>1. /\ ~runner.failed /\ EachTime /\ evmRevert(snap)
          /\ runner.phase = "afterEach"
      BY <1>3, <2>2 DEF AfterEach, IInv, TypesInv, Loses, PhaseAfterTest, EachTime
    <3>2. snap \in DOMAIN snapshots /\ Untouched(snapshots[snap])
      BY <3>1 DEF JInv, EachInv
    <3>3. chain' = snapshots[snap]
      BY <3>1, <3>2 DEF evmRevert
    <3> QED BY <3>2, <3>3
  <2> QED BY <2>1, <2>2 DEF JInv, PreparedInv, EachInv, Untouched, Awaited
<1>4. CASE AfterSuite
  <2>1. runner'.phase \in {"before", "end"} /\ runner'.test = 0
    BY <1>4 DEF AfterSuite, PhaseAfterSuite
  <2>2. runner'.phase = "before" => Awaited(chain') = Deployed
    BY <1>4, AfterSuiteKeeps DEF IInv, FreshInv, Awaited
  <2>3. runner'.phase = "before" => Untouched(chain')
    BY <2>2, DeployedUntouched
  <2> QED BY <2>1, <2>3 DEF JInv, PreparedInv, EachInv, Untouched, Awaited
<1> QED BY <1>1, <1>2, <1>3, <1>4

LEMMA InTestsJ ==
    ASSUME IInv, JInv,
           \/ ActionLacksArguments \/ ActionSkipped \/ ActionLeftFloating
           \/ ActionExecuted \/ StoryEnds
    PROVE  JInv'
<1>1. UNCHANGED runner \/ Fails("afterEach") \/ Goes("afterEach")
  BY DEF ActionLacksArguments, ActionSkipped, ActionLeftFloating, ActionExecuted,
         StoryEnds, GoesOn, Stops
<1>2. runner.phase = "test" /\ UNCHANGED <<snapshots, snap>>
  BY DEF ActionLacksArguments, ActionSkipped, ActionLeftFloating, ActionExecuted,
         StoryEnds, Testing, nodeVars
<1>3. runner'.phase \in {"test", "afterEach"} /\ runner'.suite = runner.suite
  BY <1>1, <1>2 DEF IInv, TypesInv, Fails, Goes
<1> QED BY <1>2, <1>3 DEF JInv, PreparedInv, EachInv, EachTime, Untouched, Awaited

LEMMA FloatingJ == ASSUME IInv, JInv, FloatingTransaction PROVE JInv'
<1> PICK t \in pending : chain' \in {chain, chain \cup {t}}
  BY DEF FloatingTransaction
<1>1. UNCHANGED <<runner, snapshots, snap>>
  BY DEF FloatingTransaction
<1>2. Awaited(chain') = Awaited(chain)
  BY DEF IInv, TypesInv, Awaited
<1> QED BY <1>1, <1>2 DEF JInv, PreparedInv, EachInv, EachTime, Untouched, Awaited

LEMMA StepJInv == IInv /\ JInv /\ [Next]_vars => JInv'
<1> SUFFICES ASSUME IInv, JInv, [Next]_vars PROVE JInv'
  OBVIOUS
<1>1. CASE UNCHANGED vars
  BY <1>1 DEF JInv, PreparedInv, EachInv, EachTime, Untouched, Awaited, vars, nodeVars
<1>2. CASE RunnerStep
  BY <1>2, BeforeTestsJ, AroundTestsJ, InTestsJ DEF RunnerStep
<1> QED BY <1>1, <1>2, FloatingJ DEF Next

(* In a suite that takes a snapshot before each test and reverts to it     *)
(* after it, no test ever sees another one's transactions.                 *)
THEOREM TestsAlwaysStartAsTheirSuite == Spec => []TestsStartAsTheirSuite
<1>1. JInv => TestsStartAsTheirSuite
  BY DEF JInv, EachInv, EachTime, Untouched, TestsStartAsTheirSuite
<1> QED BY <1>1, InitJInv, StepJInv, Invariant, PTL DEF Spec
-----------------------------------------------------------------------------
(* What a story leaves behind.  Transactions are told apart by suite, test *)
(* and action: what the chain holds, or a snapshot the tests may go back   *)
(* to, is from before the action that comes next, so an action's own       *)
(* transaction is there only if that action was mined.                     *)
Outcomes == {"never sent", "floating", "mined", "reverted", "lost"}
Deeds == [action : Action, outcome : Outcomes]

(* A test or its hook runs; or the tests are over, or yet to begin.        *)
InTest == runner.phase \in {"test", "afterEach"}
Over == runner.phase \in {"own snapshot", "after"}

Earlier(t) ==
    /\ t.suite \in Nat /\ t.test \in Nat /\ t.action \in Nat
    /\ \/ t.suite < runner.suite
       \/ /\ t.suite = runner.suite
          /\ \/ t.test < runner.test
             \/ t.test = runner.test /\ Over
             \/ t.test = runner.test /\ InTest /\ t.action <= Len(done)
AllEarlier(transactions) == \A t \in Awaited(transactions) : Earlier(t)

WordsInv == story \in Seq(Action) /\ done \in Seq(Deeds)
EarlierInv ==
    /\ runner.suite > 0
    /\ runner.phase # "end"
       => AllEarlier(chain) /\ \A i \in DOMAIN snapshots : AllEarlier(snapshots[i])

Mined(i) ==
    \E t \in Awaited(chain) : t.suite = runner.suite /\ t.test = runner.test /\ t.action = i
Honest(i) ==
    /\ done[i].action.expected = "success" => Mined(i)
    /\ WantsRevert(done[i].action) => ~Mined(i)
HonestInv ==
    InTest /\ ~runner.failed => \A i \in DOMAIN done : Honest(i)

KInv == WordsInv /\ EarlierInv /\ HonestInv

LEMMA InitKInv == Init => KInv
<1> SUFFICES ASSUME Init PROVE KInv
  OBVIOUS
<1>1. WordsInv
  BY DEF Init, WordsInv
<1>2. Awaited(chain) = {} /\ \A i \in DOMAIN snapshots : Awaited(snapshots[i]) = {}
  BY DEF Init, Awaited
<1> QED BY <1>1, <1>2 DEF KInv, EarlierInv, AllEarlier, HonestInv, Init

(* What becomes of a story's next action.                                  *)
StoryStep ==
    ActionLacksArguments \/ ActionSkipped \/ ActionLeftFloating \/ ActionExecuted

LEMMA WordsStay == ASSUME WordsInv, RunnerStep PROVE WordsInv'
<1>1. CASE UNCHANGED testVars
  BY <1>1 DEF WordsInv, testVars
<1>2. CASE BeforeEach
  <2>1. done' = <<>> /\ (story' \in Stories \/ story' = <<>>)
    BY <1>2 DEF BeforeEach
  <2>2. story' \in Seq(Action)
    <3>1. CASE story' \in Stories
      BY <3>1, TestSuiteAssumption
    <3>2. CASE story' = <<>>
      BY <3>2
    <3> QED BY <2>1, <3>1, <3>2
  <2> QED BY <2>1, <2>2 DEF WordsInv
<1>3. ASSUME NEW outcome \in Outcomes, Testing, GoesOn(outcome) \/ Stops(outcome)
      PROVE  WordsInv'
  <2>1. Head(story) \in Action /\ Tail(story) \in Seq(Action)
    BY <1>3 DEF Testing, WordsInv
  <2>2. done' = Append(done, [action |-> Head(story), outcome |-> outcome])
    BY <1>3 DEF GoesOn, Stops
  <2>3. [action |-> Head(story), outcome |-> outcome] \in Deeds
    BY <2>1, <1>3 DEF Deeds
  <2>4. story' = Tail(story) \/ story' = <<>>
    BY <1>3 DEF GoesOn, Stops
  <2>5. story' \in Seq(Action)
    <3>1. CASE story' = Tail(story)
      BY <2>1, <3>1
    <3>2. CASE story' = <<>>
      BY <3>2
    <3> QED BY <2>4, <3>1, <3>2
  <2> QED BY <2>2, <2>3, <2>5 DEF WordsInv
<1>4. CASE StoryStep
  BY <1>3, <1>4 DEF StoryStep, ActionLacksArguments, ActionSkipped, ActionLeftFloating,
                    ActionExecuted, Outcomes
<1> QED BY <1>1, <1>2, <1>4 DEF RunnerStep, StoryStep, initializeMakeSuite, BeforeSuite,
       PreparesTheMarket, OwnBefore, StoryEnds, AfterEach, AfterSuite, testVars

(* What was earlier stays so: the runner goes from action to action, from  *)
(* test to test and from suite to suite and never back.                    *)
LEMMA TimeGoesOn ==
    ASSUME IInv, JInv, WordsInv, RunnerStep, runner'.phase # "end", NEW t, Earlier(t)
    PROVE  Earlier(t)'
<1>a. runner.suite \in Nat /\ runner.test \in Nat
  BY DEF IInv, TypesInv
<1>b. t.suite \in Nat /\ t.test \in Nat /\ t.action \in Nat
  BY DEF Earlier
<1>1. CASE initializeMakeSuite \/ BeforeSuite \/ PreparesTheMarket
  <2>1. runner.phase \in {"setup", "before", "own before"}
    BY <1>1 DEF initializeMakeSuite, BeforeSuite, PreparesTheMarket
  <2>2. runner'.suite = runner.suite /\ runner'.test = runner.test
    BY <1>1 DEF initializeMakeSuite, BeforeSuite, PreparesTheMarket, IInv, TypesInv,
                Goes, Loses
  <2>3. ~Over /\ ~InTest
    BY <2>1 DEF Over, InTest
  <2> QED BY <2>2, <2>3, <1>a, <1>b DEF Earlier
<1>2. CASE OwnBefore
  <2>1. runner.phase \in {"own before", "own snapshot"}
    BY <1>2 DEF OwnBefore
  <2>2. runner'.suite = runner.suite
    BY <1>2 DEF OwnBefore, IInv, TypesInv, Loses
  <2>3. (runner'.phase = "after" /\ runner'.test = runner.test) \/ runner'.test = 1
    BY <1>2 DEF OwnBefore, IInv, TypesInv, Loses
  <2>4. runner.test = 0 /\ ~InTest
    BY <2>1 DEF JInv, PreparedInv, InTest
  <2>5. (Over' /\ runner'.test = runner.test) \/ runner'.test = 1
    BY <2>3 DEF Over
  <2> QED BY <2>2, <2>4, <2>5, <1>a, <1>b DEF Earlier
<1>3. CASE BeforeEach
  <2>1. runner.phase = "beforeEach"
    BY <1>3 DEF BeforeEach
  <2>2. runner'.suite = runner.suite /\ runner'.test = runner.test
    BY <1>3 DEF BeforeEach, IInv, TypesInv, Goes, Loses
  <2>3. ~Over /\ ~InTest
    BY <2>1 DEF Over, InTest
  <2> QED BY <2>2, <2>3, <1>a, <1>b DEF Earlier
<1>4. CASE StoryStep \/ StoryEnds
  <2>1. runner.phase = "test"
    BY <1>4 DEF StoryStep, StoryEnds, ActionLacksArguments, ActionSkipped,
                ActionLeftFloating, ActionExecuted, Testing
  <2>2. UNCHANGED runner \/ Goes("afterEach") \/ Fails("afterEach")
    BY <1>4 DEF StoryStep, StoryEnds, ActionLacksArguments, ActionSkipped,
                ActionLeftFloating, ActionExecuted, GoesOn, Stops
  <2>3. /\ runner'.phase \in {"test", "afterEach"}
        /\ runner'.suite = runner.suite /\ runner'.test = runner.test
    BY <2>1, <2>2 DEF IInv, TypesInv, Goes, Fails
  <2>4. Len(done) <= Len(done')
    <3>1. done' = done \/ \E d : done' = Append(done, d)
      BY <1>4 DEF StoryStep, StoryEnds, ActionLacksArguments, ActionSkipped,
                  ActionLeftFloating, ActionExecuted, GoesOn, Stops, testVars
    <3> QED BY <3>1 DEF WordsInv
  <2>5. Len(done) \in Nat /\ Len(done') \in Nat
    BY WordsStay DEF WordsInv
  <2>6. ~Over /\ InTest'
    BY <2>1, <2>3 DEF Over, InTest
  <2> QED BY <2>3, <2>4, <2>5, <2>6, <1>a, <1>b DEF Earlier
<1>5. CASE AfterEach
  <2>1. runner.phase = "afterEach"
    BY <1>5 DEF AfterEach
  <2>2. /\ runner'.suite = runner.suite
        /\ \/ runner'.phase = "after" /\ runner'.test \in {runner.test, runner.test + 1}
           \/ runner'.test = runner.test + 1
    BY <1>5 DEF AfterEach, PhaseAfterTest, IInv, TypesInv, Loses
  <2>3. ~Over /\ (runner'.phase = "after" => Over')
    BY <2>1 DEF Over
  <2> QED BY <2>2, <2>3, <1>a, <1>b DEF Earlier
<1>6. CASE AfterSuite
  <2>1. runner'.suite = runner.suite + 1
    BY <1>6 DEF AfterSuite, PhaseAfterSuite
  <2> QED BY <2>1, <1>a, <1>b DEF Earlier
<1> QED BY <1>1, <1>2, <1>3, <1>4, <1>5, <1>6 DEF RunnerStep, StoryStep

LEMMA SnapshotsFrom ==
    ASSUME IInv, RunnerStep, NEW i \in DOMAIN snapshots'
    PROVE  snapshots'[i] = chain \/ (i \in DOMAIN snapshots /\ snapshots'[i] = snapshots[i])
<1>1. CASE UNCHANGED snapshots
  BY <1>1
<1>2. CASE evmSnapshot
  BY <1>2 DEF evmSnapshot
<1>3. ASSUME NEW id, evmRevert(id)
      PROVE  i \in DOMAIN snapshots /\ snapshots'[i] = snapshots[i]
  BY <1>3 DEF evmRevert
<1>4. UNCHANGED snapshots \/ evmSnapshot \/ \E id : evmRevert(id)
  BY DEF RunnerStep, initializeMakeSuite, BeforeSuite, PreparesTheMarket, OwnBefore, BeforeEach,
         ActionLacksArguments, ActionSkipped, ActionLeftFloating, ActionExecuted,
         StoryEnds, AfterEach, AfterSuite, setSnapshot, revertHead, nodeVars
<1> QED BY <1>1, <1>2, <1>3, <1>4

(* What comes to the chain: what a snapshot had, or one transaction of now.*)
LEMMA ChainFrom ==
    ASSUME IInv, KInv, RunnerStep, runner'.phase # "end", NEW t \in Awaited(chain')
    PROVE  \/ t \in Awaited(chain)
           \/ \E i \in DOMAIN snapshots : t \in Awaited(snapshots[i])
           \/ Earlier(t)'
<1>a. runner.suite \in Nat /\ runner.test \in Nat /\ runner.suite > 0
  BY DEF IInv, TypesInv, KInv, EarlierInv
<1>1. CASE UNCHANGED chain
  BY <1>1 DEF Awaited
<1>2. ASSUME NEW id, evmRevert(id)
      PROVE  t \in Awaited(chain) \/ \E i \in DOMAIN snapshots : t \in Awaited(snapshots[i])
  BY <1>2 DEF evmRevert, Awaited
<1>3. ASSUME t = AdminSetup, runner'.suite \in Nat, runner'.suite > 0
      PROVE  Earlier(t)'
  BY <1>3 DEF AdminSetup, Earlier
<1>4. CASE initializeMakeSuite
  <2>1. CASE UNCHANGED chain
    BY <2>1 DEF Awaited
  <2>2. CASE chain' = chain \cup Deployed
    BY <1>4, <1>3, <1>a, <2>2
        DEF initializeMakeSuite, Deployed, Awaited, IInv, TypesInv, Goes, Loses
  <2> QED BY <1>4, <2>1, <2>2 DEF initializeMakeSuite
<1>5. CASE PreparesTheMarket
  <2>1. runner' = [runner EXCEPT !.phase = "own snapshot"]
    BY <1>5 DEF PreparesTheMarket, Goes
  <2>2. runner'.suite = runner.suite /\ runner'.test = runner.test /\ Over'
    BY <2>1 DEF IInv, TypesInv, Over
  <2>3. ASSUME t = Tx(0, TRUE) PROVE Earlier(t)'
    BY <2>2, <2>3, <1>a DEF Tx, Earlier
  <2> QED BY <1>5, <2>3 DEF PreparesTheMarket, Awaited
<1>6. CASE ActionExecuted
  <2>1. PICK outcome \in {"mined", "reverted", "lost"}, agrees \in BOOLEAN :
          /\ chain' = IF outcome = "mined" THEN chain \cup {Tx(Len(done) + 1, TRUE)}
                      ELSE chain
          /\ GoesOn(outcome) \/ Stops(outcome)
    BY <1>6 DEF ActionExecuted
  <2>2. runner.phase = "test" /\ (UNCHANGED runner \/ Fails("afterEach"))
    BY <1>6, <2>1 DEF ActionExecuted, Testing, GoesOn, Stops
  <2>3. runner'.suite = runner.suite /\ runner'.test = runner.test /\ InTest'
    BY <2>2 DEF IInv, TypesInv, Fails, InTest
  <2>4. done' = Append(done, [action |-> Head(story), outcome |-> outcome])
    BY <2>1 DEF GoesOn, Stops
  <2>5. Len(done') = Len(done) + 1 /\ Len(done) \in Nat
    BY <2>4 DEF KInv, WordsInv
  <2>6. ASSUME t = Tx(Len(done) + 1, TRUE) PROVE Earlier(t)'
    BY <2>3, <2>5, <2>6, <1>a DEF Tx, Earlier
  <2> QED BY <2>1, <2>6 DEF Awaited
<1>7. CASE AfterSuite
  <2>1. runner'.phase = "before" /\ runner'.suite = runner.suite + 1
    BY <1>7 DEF AfterSuite, PhaseAfterSuite
  <2>2. Awaited(chain') = Deployed
    BY <1>7, <2>1, AfterSuiteKeeps DEF IInv, FreshInv, Awaited
  <2>3. t = AdminSetup
    BY <2>2 DEF Deployed
  <2> QED BY <2>1, <2>3, <1>3, <1>a
<1>8. \/ UNCHANGED chain \/ \E id : evmRevert(id)
      \/ initializeMakeSuite \/ PreparesTheMarket \/ ActionExecuted \/ AfterSuite
  BY DEF RunnerStep, BeforeSuite, OwnBefore, BeforeEach,
         ActionLacksArguments, ActionSkipped, ActionLeftFloating,
         StoryEnds, AfterEach, setSnapshot, evmSnapshot, nodeVars
<1> QED BY <1>1, <1>2, <1>4, <1>5, <1>6, <1>7, <1>8

LEMMA EarlierStays == ASSUME IInv, JInv, KInv, RunnerStep PROVE EarlierInv'
<1>1. runner.phase # "end"
  BY DEF RunnerStep, initializeMakeSuite, BeforeSuite, PreparesTheMarket, OwnBefore, BeforeEach,
         ActionLacksArguments, ActionSkipped, ActionLeftFloating, ActionExecuted,
         StoryEnds, AfterEach, AfterSuite, Testing
<1>2. runner'.suite > 0
  <2>1. \/ UNCHANGED runner
        \/ AfterSuite
        \/ runner' = [runner EXCEPT !.phase = runner'.phase, !.test = runner'.test,
                                   !.failed = runner'.failed, !.lost = runner'.lost]
    BY DEF RunnerStep, initializeMakeSuite, BeforeSuite, PreparesTheMarket, OwnBefore, BeforeEach,
         ActionLacksArguments, ActionSkipped, ActionLeftFloating, ActionExecuted,
         StoryEnds, AfterEach, Goes, Loses, Fails, GoesOn, Stops, IInv, TypesInv
  <2>2. CASE AfterSuite
    BY <2>2 DEF AfterSuite, KInv, EarlierInv, IInv, TypesInv
  <2> QED BY <2>1, <2>2 DEF KInv, EarlierInv, IInv, TypesInv
<1>3. SUFFICES ASSUME runner'.phase # "end"
               PROVE  /\ AllEarlier(chain)'
                      /\ \A i \in DOMAIN snapshots' : AllEarlier(snapshots[i])'
  BY <1>2 DEF EarlierInv
<1>4. /\ \A t \in Awaited(chain) : Earlier(t)
      /\ \A i \in DOMAIN snapshots : \A t \in Awaited(snapshots[i]) : Earlier(t)
  BY <1>1 DEF KInv, EarlierInv, AllEarlier
<1>5. ASSUME NEW t, Earlier(t) PROVE Earlier(t)'
  BY <1>3, <1>5, TimeGoesOn DEF KInv
<1>6. AllEarlier(chain)'
  <2>1. SUFFICES ASSUME NEW t \in Awaited(chain') PROVE Earlier(t)'
    BY DEF AllEarlier, Awaited
  <2> QED BY <1>3, <1>4, <1>5, ChainFrom
<1>7. ASSUME NEW i \in DOMAIN snapshots' PROVE AllEarlier(snapshots[i])'
  <2>1. SUFFICES ASSUME NEW t \in Awaited(snapshots'[i]) PROVE Earlier(t)'
    BY DEF AllEarlier, Awaited
  <2>2. snapshots'[i] = chain \/ (i \in DOMAIN snapshots /\ snapshots'[i] = snapshots[i])
    BY SnapshotsFrom
  <2>3. t \in Awaited(chain) \/ (i \in DOMAIN snapshots /\ t \in Awaited(snapshots[i]))
    BY <2>2 DEF Awaited
  <2> QED BY <1>4, <1>5, <2>3
<1> QED BY <1>6, <1>7

(* An action's own transaction is not there before it.                     *)
LEMMA NotMinedBefore ==
    ASSUME IInv, KInv, runner.phase = "test" PROVE ~Mined(Len(done) + 1)
<1> SUFFICES ASSUME NEW t \in Awaited(chain), t.suite = runner.suite,
                    t.test = runner.test, t.action = Len(done) + 1
             PROVE  FALSE
  BY DEF Mined
<1>1. Earlier(t) /\ ~Over /\ runner.suite \in Nat /\ runner.test \in Nat
  BY DEF KInv, EarlierInv, AllEarlier, Over, IInv, TypesInv
<1>2. Len(done) \in Nat
  BY DEF KInv, WordsInv
<1> QED BY <1>1, <1>2 DEF Earlier

LEMMA GoesOnHonestly ==
    ASSUME IInv, KInv, HonestInv, NEW outcome, NEW tx,
           Testing, ~runner.failed, GoesOn(outcome),
           Head(story).expected = "success" => outcome = "mined",
           WantsRevert(Head(story)) => outcome # "mined",
           tx = Tx(Len(done) + 1, TRUE),
           chain' = IF outcome = "mined" THEN chain \cup {tx} ELSE chain
    PROVE  HonestInv'
<1> PICK n : n = Len(done) + 1
  OBVIOUS
<1>1. n \in Nat /\ DOMAIN done = 1..Len(done) /\ DOMAIN done' = 1..n
  BY DEF GoesOn, KInv, WordsInv
<1>2. /\ done'[n].action = Head(story)
      /\ \A i \in DOMAIN done : done'[i] = done[i]
  BY DEF GoesOn, KInv, WordsInv
<1>3. runner' = runner /\ InTest
  BY DEF GoesOn, Testing, InTest
<1>4. /\ tx.suite = runner.suite /\ tx.test = runner.test /\ tx.action = n
      /\ tx.awaited
  BY DEF Tx
<1>5. ASSUME NEW i \in DOMAIN done PROVE Honest(i)'
  <2>1. Honest(i)
    BY <1>3 DEF HonestInv
  <2>2. i # n
    BY <1>1
  <2>3. Mined(i)' <=> Mined(i)
    BY <1>3, <1>4, <2>2 DEF Mined, Awaited
  <2> QED BY <1>2, <2>1, <2>3 DEF Honest, WantsRevert
<1>6. Honest(n)'
  <2>1. outcome = "mined" => Mined(n)'
    BY <1>3, <1>4 DEF Mined, Awaited
  <2>2. outcome # "mined" => ~Mined(n)'
    <3>1. ~Mined(n)
      BY NotMinedBefore DEF Testing
    <3> QED BY <1>3, <3>1 DEF Mined, Awaited
  <2>3. /\ done'[n].action.expected = "success" => outcome = "mined"
        /\ WantsRevert(done'[n].action) => outcome # "mined"
    BY <1>2
  <2> QED BY <2>1, <2>2, <2>3 DEF Honest, WantsRevert
<1>7. ASSUME NEW i \in DOMAIN done' PROVE Honest(i)'
  <2>1. i \in DOMAIN done \/ i = n
    BY <1>1
  <2> QED BY <1>5, <1>6, <2>1
<1> QED BY <1>7 DEF HonestInv

LEMMA HonestStays == ASSUME IInv, JInv, KInv, RunnerStep PROVE HonestInv'
<1>1. SUFFICES ASSUME InTest', ~runner'.failed PROVE HonestInv'
  BY DEF HonestInv
<1>2. HonestInv
  BY DEF KInv
<1>3. CASE BeforeEach
  <2>1. done' = <<>>
    BY <1>3 DEF BeforeEach
  <2>2. DOMAIN done' = {}
    BY <2>1
  <2> QED BY <2>2 DEF HonestInv
<1>4. CASE StoryEnds
  <2>1. runner.phase = "test" /\ runner' = [runner EXCEPT !.phase = "afterEach"]
    BY <1>4 DEF StoryEnds, Goes
  <2>2. /\ InTest /\ ~runner.failed
        /\ runner'.suite = runner.suite /\ runner'.test = runner.test
    BY <1>1, <2>1 DEF IInv, TypesInv, InTest
  <2>3. UNCHANGED <<done, chain>>
    BY <1>4 DEF StoryEnds, testVars, nodeVars
  <2> QED BY <1>2, <2>2, <2>3 DEF HonestInv, Honest, Mined, Awaited, WantsRevert
<1>5. ASSUME NEW outcome PROVE ~Stops(outcome)
  BY <1>1 DEF Stops, Fails, IInv, TypesInv
<1>6. CASE StoryStep
  <2> DEFINE tx == Tx(Len(done) + 1, TRUE)
  <2>1. Testing
    BY <1>6 DEF StoryStep, ActionLacksArguments, ActionSkipped, ActionLeftFloating,
                ActionExecuted
  <2>2. ASSUME NEW outcome, GoesOn(outcome) PROVE ~runner.failed
    BY <1>1, <2>2 DEF GoesOn
  <2>3. CASE ActionLacksArguments
    BY <1>5, <2>3 DEF ActionLacksArguments
  <2>4. CASE ActionSkipped
    <3>1. Head(story).expected = "other" /\ GoesOn("never sent") /\ chain' = chain
      <4>1. Head(story) \in Action
        BY <2>1 DEF KInv, WordsInv, Testing
      <4> QED BY <2>4, <4>1 DEF ActionSkipped, Sends, Action, nodeVars
    <3> QED BY <1>2, <2>1, <2>2, <3>1, GoesOnHonestly DEF WantsRevert
  <2>5. CASE ActionLeftFloating
    <3>1. Head(story).expected = "other" /\ GoesOn("floating") /\ chain' = chain
      BY <2>5 DEF ActionLeftFloating, Awaits
    <3> QED BY <1>2, <2>1, <2>2, <3>1, GoesOnHonestly DEF WantsRevert
  <2>6. CASE ActionExecuted
    <3>1. PICK outcome \in {"mined", "reverted", "lost"}, agrees \in BOOLEAN :
            /\ chain' = IF outcome = "mined" THEN chain \cup {tx} ELSE chain
            /\ IF Content(Head(story), outcome, agrees) THEN GoesOn(outcome)
               ELSE Stops(outcome)
      BY <2>1, <2>6 DEF ActionExecuted, Testing
    <3>2. GoesOn(outcome) /\ Content(Head(story), outcome, agrees)
      BY <1>5, <3>1
    <3>3. /\ Head(story).expected = "success" => outcome = "mined"
          /\ WantsRevert(Head(story)) => outcome # "mined"
      BY <3>2 DEF Content, WantsRevert
    <3> QED BY <1>2, <2>1, <2>2, <3>1, <3>2, <3>3, GoesOnHonestly
  <2> QED BY <1>6, <2>3, <2>4, <2>5, <2>6 DEF StoryStep
<1>7. \/ BeforeEach \/ StoryEnds \/ StoryStep
      \/ initializeMakeSuite \/ BeforeSuite \/ PreparesTheMarket \/ OwnBefore
      \/ AfterEach \/ AfterSuite
  BY DEF RunnerStep, StoryStep
<1>8. ASSUME \/ initializeMakeSuite \/ BeforeSuite \/ PreparesTheMarket \/ OwnBefore
             \/ AfterEach \/ AfterSuite
      PROVE  FALSE
  <2> DEFINE Around == {"before", "end", "own before", "own snapshot", "beforeEach", "after"}
  <2>1. CASE initializeMakeSuite \/ BeforeSuite \/ PreparesTheMarket
    <3>1. runner'.phase \in Around
      BY <2>1 DEF initializeMakeSuite, BeforeSuite, PreparesTheMarket, Goes, Loses,
                  IInv, TypesInv
    <3> QED BY <1>1, <3>1 DEF InTest
  <2>2. CASE OwnBefore
    <3>1. runner'.phase \in Around
      BY <2>2 DEF OwnBefore, Loses, IInv, TypesInv
    <3> QED BY <1>1, <3>1 DEF InTest
  <2>3. CASE AfterEach
    <3>1. runner'.phase \in Around
      BY <2>3 DEF AfterEach, Loses, PhaseAfterTest, IInv, TypesInv
    <3> QED BY <1>1, <3>1 DEF InTest
  <2>4. CASE AfterSuite
    <3>1. runner'.phase \in Around
      BY <2>4 DEF AfterSuite, PhaseAfterSuite
    <3> QED BY <1>1, <3>1 DEF InTest
  <2> QED BY <1>8, <2>1, <2>2, <2>3, <2>4
<1> QED BY <1>3, <1>4, <1>6, <1>7, <1>8

LEMMA StepKInv == IInv /\ JInv /\ KInv /\ [Next]_vars => KInv'
<1> SUFFICES ASSUME IInv, JInv, KInv, [Next]_vars PROVE KInv'
  OBVIOUS
<1>1. ASSUME UNCHANGED <<runner, story, done, snapshots>>, Awaited(chain') = Awaited(chain)
      PROVE  KInv'
  <2>1. WordsInv' /\ (InTest' <=> InTest) /\ Awaited(chain)' = Awaited(chain)
    BY <1>1 DEF KInv, WordsInv, InTest, Awaited
  <2>2. \A t : Earlier(t)' <=> Earlier(t)
    BY <1>1 DEF Earlier, Over, InTest
  <2>3. EarlierInv'
    BY <1>1, <2>1, <2>2 DEF KInv, EarlierInv, AllEarlier, Awaited
  <2>4. \A i : Mined(i)' <=> Mined(i)
    BY <1>1, <2>1 DEF Mined
  <2>5. HonestInv'
    BY <1>1, <2>1, <2>4 DEF KInv, HonestInv, Honest, WantsRevert
  <2> QED BY <2>1, <2>3, <2>5 DEF KInv
<1>2. CASE UNCHANGED vars
  BY <1>1, <1>2 DEF vars, nodeVars, testVars, Awaited
<1>3. CASE FloatingTransaction
  <2>1. PICK t \in pending : chain' \in {chain, chain \cup {t}}
    BY <1>3 DEF FloatingTransaction
  <2>2. Awaited(chain') = Awaited(chain)
    BY <2>1 DEF IInv, TypesInv, Awaited
  <2> QED BY <1>1, <1>3, <2>2 DEF FloatingTransaction, testVars
<1>4. CASE RunnerStep
  BY <1>4, WordsStay, EarlierStays, HonestStays DEF KInv
<1> QED BY <1>2, <1>3, <1>4 DEF Next

(* A test that passes has put on the chain what its story says succeeds    *)
(* and nothing it says reverts, for any stories: no action is taken for    *)
(* another's transaction, whatever earlier tests left on the chain and     *)
(* whatever comes to it unawaited (actions.ts, where each action waits for *)
(* its transaction or expects it to revert).                               *)
THEOREM StoriesTellTheTruth == Spec => []StoryToldTheTruth
<1>1. KInv => StoryToldTheTruth
  <2>1. SUFFICES ASSUME KInv, runner.phase = "afterEach", ~runner.failed,
                        NEW i \in DOMAIN done
                 PROVE  /\ done[i].action.expected = "success" => Mined(i)
                        /\ done[i].action.expected = "revert" /\ WantsRevert(done[i].action)
                           => ~Mined(i)
    BY DEF StoryToldTheTruth, Mined
  <2>2. Honest(i)
    BY <2>1 DEF KInv, HonestInv, InTest
  <2> QED BY <2>2 DEF Honest
<1> QED BY <1>1, InitKInv, StepKInv, InitJInv, StepJInv, Invariant, PTL DEF Spec

=============================================================================
