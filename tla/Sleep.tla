-------------------------------- MODULE Sleep --------------------------------
(***************************************************************************)
(* Sleep consolidation.                                                     *)
(*                                                                          *)
(* A pass reads the durable memories, counts the distinct ones behind each  *)
(* association, stores one reflective memory for each of the strongest      *)
(* recurring associations it does not find stored yet, and finally appends  *)
(* its report.  It is not atomic: memories may be formed while it works,    *)
(* another pass may run beside it, and it may fail or its process may stop  *)
(* between any two of its writes.                                           *)
(***************************************************************************)
EXTENDS Naturals, FiniteSets

CONSTANTS
    Sleepers,       \* processes that run passes, one at a time
    Links,          \* associations
    Rank,           \* the order of their names
    Contents,       \* what memories say
    Minimum,        \* minimum_pattern_memories
    Strongest,      \* max_patterns
    MaxStored,      \* bound: memories formed
    MaxPasses       \* bound: passes begun

ASSUME SleepAssumption ==
    /\ IsFiniteSet(Sleepers) /\ IsFiniteSet(Links)
    /\ Minimum \in Nat \ {0} /\ Strongest \in Nat
    /\ Rank \in [Links -> Nat]
    /\ \A x, y \in Links : Rank[x] = Rank[y] => x = y

VARIABLES
    formed,         \* memories formed while awake: [content, at, links]
    products,       \* consolidations stored: [link, count, copy]
    pass,           \* each sleeper's pass
    passes,         \* how many were begun
    reports         \* the consolidations each report names

sleepVars == <<formed, products, pass, passes, reports>>

-----------------------------------------------------------------------------
Awake == [stage |-> "awake"]

\* What a pass would store for an association and count.
Product(x, n) == [link |-> x, count |-> n]

Known(x, n) == \E p \in products : p.link = x /\ p.count = n

\* Distinct memories behind an association: the same words formed at the same
\* time count once.  Products are no evidence.
Behind(memories, x) ==
    Cardinality({<<m.content, m.at>> : m \in {k \in memories : x \in k.links}})

Recurring(memories) == {x \in Links : Behind(memories, x) >= Minimum}

\* The best supported associations, then the first by name.
Patterns(memories) ==
    LET stronger(x, y) == \/ Behind(memories, x) > Behind(memories, y)
                          \/ Behind(memories, x) = Behind(memories, y) /\ Rank[x] < Rank[y]
    IN  {x \in Recurring(memories) :
            Cardinality({y \in Recurring(memories) : stronger(y, x)}) < Strongest}

SleepInit ==
    /\ formed = {} /\ products = {}
    /\ pass = [s \in Sleepers |-> Awake] /\ passes = 0
    /\ reports = {}

-----------------------------------------------------------------------------
\* An interaction stores a memory; the clock may not have moved since the last.
Form(content, links) ==
    /\ Cardinality(formed) < MaxStored
    /\ \E at \in 0 .. 1 : \* formed_at, which nothing else depends on
          /\ [content |-> content, at |-> at, links |-> links] \notin formed
          /\ formed' = formed \cup {[content |-> content, at |-> at, links |-> links]}
    /\ UNCHANGED <<products, pass, passes, reports>>

\* Fault: what earlier passes stored is not looked at.
FallAsleepAnew(s) ==
    /\ pass[s].stage = "awake" /\ passes < MaxPasses
    /\ passes' = passes + 1
    /\ pass' = [pass EXCEPT ![s] =
          [stage |-> "asleep", stored |-> {},
           todo  |-> {Product(x, Behind(formed, x)) : x \in Patterns(formed)}]]
    /\ UNCHANGED <<formed, products, reports>>

\* A pass reads memory once; everything it stores follows from what it read.
FallAsleep(s) ==
    /\ pass[s].stage = "awake" /\ passes < MaxPasses
    /\ passes' = passes + 1
    /\ pass' = [pass EXCEPT ![s] =
          [stage |-> "asleep", stored |-> {},
           todo  |-> {Product(x, Behind(formed, x)) :
                        x \in {y \in Patterns(formed) : ~Known(y, Behind(formed, y))}}]]
    /\ UNCHANGED <<formed, products, reports>>

\* One consolidation is stored; a copy another pass stored since is not seen.
Consolidate(s) ==
    /\ pass[s].stage = "asleep"
    /\ \E p \in pass[s].todo :
          LET copies == Cardinality({q \in products : q.link = p.link /\ q.count = p.count})
          IN
          /\ products' = products \cup
                {[link |-> p.link, count |-> p.count, copy |-> copies + 1]}
          /\ pass' = [pass EXCEPT ![s].todo = @ \ {p}, ![s].stored = @ \cup {p}]
    /\ UNCHANGED <<formed, passes, reports>>

WakeUp(s) ==
    /\ pass[s].stage = "asleep" /\ pass[s].todo = {}
    /\ reports' = reports \cup pass[s].stored
    /\ pass' = [pass EXCEPT ![s] = Awake]
    /\ UNCHANGED <<formed, products, passes>>

\* A write fails, or the process stops; what was stored stays.
Disturbed(s) ==
    /\ pass[s].stage = "asleep"
    /\ pass' = [pass EXCEPT ![s] = Awake]
    /\ UNCHANGED <<formed, products, passes, reports>>

SleepNext ==
    \/ \E c \in Contents, links \in SUBSET Links \ {{}} : Form(c, links)
    \/ \E s \in Sleepers : FallAsleep(s) \/ Consolidate(s) \/ WakeUp(s) \/ Disturbed(s)

SleepSpec == SleepInit /\ [][SleepNext]_sleepVars

-----------------------------------------------------------------------------
\* A pass stores at most the strongest patterns.
SleepOK ==
    \A s \in Sleepers : pass[s].stage = "asleep" =>
        Cardinality(pass[s].todo \cup pass[s].stored) <= Strongest

\* No consolidation claims more distinct memories than were formed: neither
\* earlier consolidations nor the same memory twice feed the count.
ClaimsAreGrounded ==
    \A p \in products : Minimum <= p.count /\ p.count <= Behind(formed, p.link)

\* However often passes run, fail halfway and run again, one consolidation has
\* at most one copy for each sleeper that worked at the same time: a pass never
\* repeats what was stored before it began.
FewCopies == \A p \in products : p.copy <= Cardinality(Sleepers)

\* A report names only what is stored.
ReportsAreStored == \A p \in reports : Known(p.link, p.count)

\* What sleep adds to memory is grounded, repeated no more often than passes
\* can overlap, and reported only when it is stored.
ConsolidationsHold ==
    /\ SleepOK
    /\ ClaimsAreGrounded
    /\ FewCopies
    /\ ReportsAreStored
=============================================================================
