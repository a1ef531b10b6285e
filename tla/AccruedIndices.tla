--------------------------- MODULE AccruedIndices ---------------------------
(***************************************************************************)
(* What the pool relies on when it lets a reserve's indices grow by        *)
(* themselves (Pool!Accrue): seen at the present block, they never fall,   *)
(* suppliers earn only while one of the debt tokens has a supply, the      *)
(* borrow index moves only under a variable debt, and no call moves either.*)
(***************************************************************************)
EXTENDS Integers

CONSTANT One            \* an index at the start

VARIABLES
    block,              \* the present
    income, debtIndex,  \* the normalised indices
    owedStable, owedVariable    \* whether anything is on the books as owed, per mode

accruedVars == <<block, income, debtIndex, owedStable, owedVariable>>

AccruedInit ==
    /\ income = One /\ debtIndex = One
    /\ owedStable = FALSE /\ owedVariable = FALSE

TimePasses ==
    /\ block' > block
    /\ income' >= income /\ debtIndex' >= debtIndex
    /\ income' > income => owedStable \/ owedVariable
    /\ debtIndex' > debtIndex => owedVariable
    /\ UNCHANGED <<owedStable, owedVariable>>

CallMade ==
    /\ owedStable' \in BOOLEAN /\ owedVariable' \in BOOLEAN
    /\ UNCHANGED <<block, income, debtIndex>>

AccruedSpec == AccruedInit /\ [][TimePasses \/ CallMade]_accruedVars

=============================================================================
