------------------------------ MODULE TestSuite ------------------------------
(***************************************************************************)
(* How the tests share one chain: every suite made by makeSuite            *)
(* (helpers/make-suite.ts) starts from the market that __setup.spec.ts     *)
(* deployed, by a snapshot taken before it and reverted to after it, and   *)
(* its tests execute stories (helpers/scenario-engine.ts, actions.ts), one *)
(* transaction an action.  Some suites take snapshots of their own.        *)
(*                                                                         *)
(* The runner is Mocha, with "bail" (hardhat.config.ts): after a failure   *)
(* the hooks of the open suite still run and no further suite does.  A     *)
(* call to the node may fail in a hook as in a test.  What an action does  *)
(* to the market is the module Scenario's subject; here a transaction is   *)
(* mined or not, and is read afterwards as expected or not.                *)
(***************************************************************************)
EXTENDS Integers, Sequences

CONSTANTS
    Suites,     \* how many suites there are,
    Tests,      \* how many tests each has,
    Kind,       \* and when each takes snapshots of its own
    Stories     \* what a test may be: sequences of actions

Kinds == {"plain",  \* never
          "each",   \* before each test, reverted to after it
          "once"}   \* before the tests, reverted to by each but the first

(* "complete": every argument the action needs is there.  "told": it names *)
(* the message of the revert.                                              *)
Action == [name : {"mint", "delegateBorrowAllowance", "borrow", "deposit"},
           expected : {"success", "revert", "other"},
           complete : BOOLEAN, told : BOOLEAN]

ASSUME TestSuiteAssumption ==
    /\ Suites \in Nat \ {0} /\ Tests \in Nat \ {0}
    /\ Kind \in [1..Suites -> Kinds]
    /\ Stories \subseteq Seq(Action)

VARIABLES
    runner,             \* where Mocha is
    story,              \* what is left of the test's story,
    done,               \* and what became of the rest
    chain,              \* the transactions on top of the fixture
    pending,            \* those sent that nobody waits for
    snapshots,          \* the node's, by id
    nextSnapshot,
    HardhatSnapshotId,  \* the suite's: an id,
    head,               \* or on Tenderly a head of the chain
    usingTenderly,
    snap                \* a spec's own

nodeVars == <<chain, pending, snapshots, nextSnapshot>>
suiteVars == <<HardhatSnapshotId, head, usingTenderly>>
testVars == <<story, done>>
vars == <<runner, testVars, nodeVars, suiteVars, snap>>

Transaction == [suite : 0..Suites, test : 0..Tests, action : Nat, awaited : BOOLEAN]
Tx(action, awaited) ==
    [suite |-> runner.suite, test |-> runner.test, action |-> action, awaited |-> awaited]

(* The admins initializeMakeSuite adds.                                    *)
AdminSetup == [suite |-> 0, test |-> 0, action |-> 0, awaited |-> TRUE]
Deployed == {AdminSetup}

-----------------------------------------------------------------------------
(* The node.  evm_revert takes an id once, with all later ones; of any     *)
(* other id it answers false, which nobody looks at.                       *)
evmSnapshot ==
    /\ snapshots' = [i \in DOMAIN snapshots \cup {nextSnapshot} |->
                        IF i = nextSnapshot THEN chain ELSE snapshots[i]]
    /\ nextSnapshot' = nextSnapshot + 1
    /\ UNCHANGED <<chain, pending>>

evmRevert(id) ==
    /\ IF id \in DOMAIN snapshots
       THEN /\ chain' = snapshots[id]
            /\ snapshots' = [i \in {j \in DOMAIN snapshots : j < id} |-> snapshots[i]]
       ELSE UNCHANGED <<chain, snapshots>>
    /\ UNCHANGED <<pending, nextSnapshot>>

(* What was sent and not waited for comes whenever it comes.               *)
FloatingTransaction ==
    \E t \in pending :
        /\ pending' = pending \ {t}
        /\ chain' \in {chain, chain \cup {t}}
        /\ UNCHANGED <<runner, testVars, snapshots, nextSnapshot, suiteVars, snap>>

-----------------------------------------------------------------------------
(* Mocha.                                                                  *)
Goes(phase) == runner' = [runner EXCEPT !.phase = phase]
Fails(phase) == runner' = [runner EXCEPT !.phase = phase, !.failed = TRUE]
(* A call of a hook to the node fails.                                     *)
Loses(phase) == runner' = [runner EXCEPT !.phase = phase, !.failed = TRUE, !.lost = TRUE]

(* Slip: bail ends the run at once, hooks and all.                         *)
PhaseAfterTestAtOnce(failed) ==
    IF failed THEN "end" ELSE IF runner.test = Tests THEN "after" ELSE "beforeEach"
PhaseAfterTest(failed) == IF failed \/ runner.test = Tests THEN "after" ELSE "beforeEach"

(* Slip: no bail.                                                          *)
PhaseAfterSuiteWithoutBail(failed) == IF runner.suite = Suites THEN "end" ELSE "before"
PhaseAfterSuite(failed) == IF failed \/ runner.suite = Suites THEN "end" ELSE "before"

(* The fixture is deployed and leaves a snapshot of its own; the test      *)
(* environment is filled in and admins are added.                          *)
initializeMakeSuite ==
    /\ runner.phase = "setup"
    /\ \/ Goes("before") /\ chain' = chain \cup Deployed
       \/ Loses("end") /\ UNCHANGED chain
    /\ UNCHANGED <<testVars, pending, snapshots, nextSnapshot, suiteVars, snap>>

(* setSnapshot, in the hook before a suite.                                *)
setSnapshot ==
    IF usingTenderly
    THEN head' = chain /\ UNCHANGED <<nodeVars, HardhatSnapshotId, usingTenderly>>
    ELSE /\ evmSnapshot
         /\ HardhatSnapshotId' = nextSnapshot
         /\ UNCHANGED <<head, usingTenderly>>

(* revertHead, in the hook after it.                                       *)
revertHead ==
    IF usingTenderly
    THEN chain' = head /\ UNCHANGED <<pending, snapshots, nextSnapshot>>
    ELSE evmRevert(HardhatSnapshotId)

BeforeSuite ==
    /\ runner.phase = "before"
    /\ \/ setSnapshot /\ Goes("own before")
       \/ Loses("after") /\ UNCHANGED <<nodeVars, suiteVars>>
    /\ UNCHANGED <<testVars, snap>>

(* A spec's hook before its tests: transactions, then its own snapshot.    *)
PreparesTheMarket ==
    /\ runner.phase = "own before"
    /\ chain' = chain \cup {Tx(0, TRUE)}
    /\ Goes("own snapshot")
    /\ UNCHANGED <<testVars, pending, snapshots, nextSnapshot, suiteVars, snap>>

OwnBefore ==
    /\ runner.phase \in {"own before", "own snapshot"}
    /\ \/ /\ runner' = [runner EXCEPT !.phase = "beforeEach", !.test = 1]
          /\ IF Kind[runner.suite] = "once" THEN evmSnapshot /\ snap' = nextSnapshot
             ELSE UNCHANGED <<nodeVars, snap>>
       \/ Loses("after") /\ UNCHANGED <<nodeVars, snap>>
    /\ UNCHANGED <<testVars, suiteVars>>

(* Slip: one snapshot is to do for all tests.                              *)
TakesSnapshotOnce == Kind[runner.suite] = "each" /\ runner.test = 1
TakesSnapshot == Kind[runner.suite] = "each"

(* Slip: a spec keeps its snapshot where the suite keeps its own.          *)
KeptWithTheSuites == HardhatSnapshotId' = nextSnapshot /\ UNCHANGED snap
KeptApart == snap' = nextSnapshot /\ UNCHANGED HardhatSnapshotId

BeforeEach ==
    /\ runner.phase = "beforeEach"
    /\ done' = <<>>
    /\ \/ /\ Goes("test")
          /\ story' \in Stories
          /\ IF TakesSnapshot THEN evmSnapshot /\ KeptApart
             ELSE /\ UNCHANGED <<snap, HardhatSnapshotId>>
                  /\ IF Kind[runner.suite] = "once" /\ runner.test > 1 THEN evmRevert(snap)
                     ELSE UNCHANGED nodeVars
       \/ /\ Loses("afterEach")
          /\ story' = <<>>
          /\ UNCHANGED <<nodeVars, snap, HardhatSnapshotId>>
    /\ UNCHANGED <<head, usingTenderly>>

AfterEach ==
    /\ runner.phase = "afterEach"
    /\ \/ /\ runner' = [runner EXCEPT !.phase = PhaseAfterTest(runner.failed),
                                      !.test = IF @ = Tests THEN @ ELSE @ + 1]
          /\ IF Kind[runner.suite] = "each" THEN evmRevert(snap) ELSE UNCHANGED nodeVars
       \/ Loses("after") /\ UNCHANGED nodeVars
    /\ UNCHANGED <<testVars, suiteVars, snap>>

AfterSuite ==
    /\ runner.phase = "after"
    /\ \E lost \in BOOLEAN :
        LET failed == runner.failed \/ lost
            phase == PhaseAfterSuite(failed)
        IN  /\ runner' = [phase |-> phase, test |-> 0, failed |-> failed,
                          suite |-> IF phase = "before" THEN runner.suite + 1 ELSE runner.suite,
                          lost |-> runner.lost \/ lost]
            /\ IF lost THEN UNCHANGED nodeVars ELSE revertHead
    /\ UNCHANGED <<testVars, suiteVars, snap>>

-----------------------------------------------------------------------------
(* executeAction, and what each of actions.ts does with "expected".  Every *)
(* other action is like a deposit.                                         *)
Sends(a) == a.name # "deposit" \/ a.expected # "other"
(* A borrow is sent before "expected" is looked at.                        *)
Awaits(a) == ~(a.name = "borrow" /\ a.expected = "other")
WantsRevert(a) ==
    /\ a.expected = "revert"
    /\ a.name # "mint"
    /\ a.name = "delegateBorrowAllowance" => a.told

(* Slip: the expectation of a revert is not awaited.                       *)
ContentUnawaited(a, outcome, agrees) ==
    WantsRevert(a) \/ (outcome = "mined" /\ agrees)
(* Whether the action goes through without an exception.                   *)
Content(a, outcome, agrees) ==
    IF WantsRevert(a) THEN outcome = "reverted" ELSE outcome = "mined" /\ agrees

Testing == runner.phase = "test" /\ story # <<>>

(* One has been dealt with, and the story goes on.                         *)
GoesOn(outcome) ==
    /\ done' = Append(done, [action |-> Head(story), outcome |-> outcome])
    /\ story' = Tail(story)
    /\ UNCHANGED runner

Stops(outcome) ==
    /\ done' = Append(done, [action |-> Head(story), outcome |-> outcome])
    /\ story' = <<>>
    /\ Fails("afterEach")

ActionLacksArguments ==
    /\ Testing /\ ~Head(story).complete
    /\ Stops("never sent")
    /\ UNCHANGED <<nodeVars, suiteVars, snap>>

ActionSkipped ==
    /\ Testing /\ Head(story).complete /\ ~Sends(Head(story))
    /\ GoesOn("never sent")
    /\ UNCHANGED <<nodeVars, suiteVars, snap>>

ActionLeftFloating ==
    /\ Testing /\ Head(story).complete /\ ~Awaits(Head(story))
    /\ GoesOn("floating")
    /\ pending' = pending \cup {Tx(Len(done) + 1, FALSE)}
    /\ UNCHANGED <<chain, snapshots, nextSnapshot, suiteVars, snap>>

(* The transaction is mined, reverts, or does not reach the node.          *)
ActionExecuted ==
    LET a == IF story = <<>> THEN <<>> ELSE Head(story)
    IN  /\ Testing /\ a.complete /\ Sends(a) /\ Awaits(a)
        /\ \E outcome \in {"mined", "reverted", "lost"}, agrees \in BOOLEAN :
              /\ chain' = IF outcome = "mined" THEN chain \cup {Tx(Len(done) + 1, TRUE)}
                          ELSE chain
              /\ IF Content(a, outcome, agrees) THEN GoesOn(outcome) ELSE Stops(outcome)
        /\ UNCHANGED <<pending, snapshots, nextSnapshot, suiteVars, snap>>

StoryEnds ==
    /\ runner.phase = "test" /\ story = <<>>
    /\ Goes("afterEach")
    /\ UNCHANGED <<testVars, nodeVars, suiteVars, snap>>

-----------------------------------------------------------------------------
Init ==
    /\ runner = [phase |-> "setup", suite |-> 1, test |-> 0, failed |-> FALSE, lost |-> FALSE]
    /\ story = <<>> /\ done = <<>>
    /\ chain = {} /\ pending = {}
    /\ snapshots = [i \in {1} |-> {}] /\ nextSnapshot = 2
    /\ HardhatSnapshotId = 1 /\ head = {}
    /\ usingTenderly \in BOOLEAN
    /\ snap = 0

RunnerStep ==
    \/ initializeMakeSuite
    \/ BeforeSuite \/ PreparesTheMarket \/ OwnBefore \/ BeforeEach
    \/ ActionLacksArguments \/ ActionSkipped \/ ActionLeftFloating \/ ActionExecuted
    \/ StoryEnds \/ AfterEach \/ AfterSuite

Next == RunnerStep \/ FloatingTransaction

(* Mocha goes on as soon as what it awaits is settled; the node settles    *)
(* every call (there is no timeout to do it, hardhat.config.ts).           *)
Fairness == WF_vars(RunnerStep)

Spec == Init /\ [][Next]_vars /\ Fairness

-----------------------------------------------------------------------------
Awaited(transactions) == {t \in transactions : t.awaited}

(* Inside a suite the node still has the suite's snapshot, whatever        *)
(* snapshots its tests take and revert to, and it holds nothing but the    *)
(* deployment and what nobody waited for (make-suite.ts).                  *)
SuiteSnapshotKept ==
    runner.phase \in {"own before", "own snapshot", "beforeEach", "test", "afterEach"}
    => IF usingTenderly THEN Awaited(head) = Deployed
       ELSE /\ HardhatSnapshotId \in DOMAIN snapshots
            /\ Awaited(snapshots[HardhatSnapshotId]) = Deployed

(* A suite starts on the market as it was deployed, whatever the suites    *)
(* before it did and however they ended; only what nobody waited for may   *)
(* still arrive.                                                           *)
SuitesStartOnDeployedChain == runner.phase = "before" => Awaited(chain) = Deployed

(* Where a suite takes a snapshot before each test, no test sees another's *)
(* transactions.  A suite that takes it once is another matter: the        *)
(* snapshot is used up by the second test (ltv-validation.spec.ts).        *)
TestsStartAsTheirSuite ==
    runner.phase = "beforeEach" /\ Kind[runner.suite] = "each"
    => \A t \in Awaited(chain) : t.test = 0

(* A test that passes has put on the chain what its story expects to       *)
(* succeed, and nothing it expects to revert: no failure is swallowed.  Of *)
(* a mint, and of a delegation without a message, a revert is not asked.   *)
StoryToldTheTruth ==
    runner.phase = "afterEach" /\ ~runner.failed =>
    \A i \in DOMAIN done :
        LET a == done[i].action
            mined == \E t \in Awaited(chain) :
                        t.suite = runner.suite /\ t.test = runner.test /\ t.action = i
        IN  /\ a.expected = "success" => mined
            /\ a.expected = "revert" /\ WantsRevert(a) => ~mined

(* The run ends, and unless a call of a hook failed the chain is left as   *)
(* deployed, however many tests failed.                                    *)
RunEndsRestored ==
    <>[](runner.phase = "end" /\ (runner.lost \/ Awaited(chain) = Deployed))

=============================================================================
