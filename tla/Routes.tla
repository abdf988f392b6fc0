------------------------------- MODULE Routes -------------------------------
(***************************************************************************)
(* The routing rules (services/routes.ts): a draft that is edited rule by  *)
(* rule and published as a revision.  The rules of the local networks come *)
(* first and the rule for everything else last, through every operation;   *)
(* positions are numbers with a unique index, moved out of the way by      *)
(* 10000 while they are assigned.                                          *)
(***************************************************************************)
EXTENDS Naturals, FiniteSets, Sequences, SequencesExt, Lists

CONSTANTS
    Rules,          \* ids
    NumLocals,      \* rules of the local networks; three in the code
    Looks,          \* action, matcher, value and whether it is enabled, of a rule
    Complete,       \* whether a request to reorder names every rule
    MaxRevisions    \* bound

ASSUME RoutesAssumption ==
    /\ IsFiniteSet(Rules)
    /\ NumLocals \in Nat /\ Cardinality(Rules) > NumLocals
    /\ Looks # {}
    /\ Complete \in BOOLEAN
    /\ MaxRevisions \in Nat

VARIABLES
    draft,          \* route_drafts, by id
    revisions,      \* route_revisions: the rules of each
    active          \* active_route_version

routesVars == <<draft, revisions, active>>

\* A local network by its number, a rule of the owner, and the one for everything else.
User == 0
Rest == NumLocals + 1

\* The default rules (schema.ts), under some ids.
First == CHOOSE first \in [1..Rest -> Rules] : IsInjective(first)

RoutesInit ==
    /\ \E look \in Looks :
           draft = [i \in Range(First) |->
                       LET n == CHOOSE n \in 1..Rest : First[n] = i
                       IN  [id |-> i, sort |-> n, look |-> look, position |-> n - 1]]
    /\ revisions = <<>>
    /\ active = 0

\* SELECT * FROM route_drafts ORDER BY position
ByPosition(rows) == Listed(rows, {ab \in rows \X rows : ab[1].position < ab[2].position})
Rows == {draft[i] : i \in DOMAIN draft}
Ordered == ByPosition(Rows)
Ids(rules) == [n \in DOMAIN rules |-> rules[n].id]

\* The positions are counted anew along a list of ids; a rule the list leaves out stays out
\* of the way, and one it names twice takes the later position.
Renumbered(rules, ids) ==
    [i \in DOMAIN rules |->
        [rules[i] EXCEPT !.position =
            IF i \in Range(ids) THEN (CHOOSE n \in DOMAIN ids :
                                         /\ ids[n] = i
                                         /\ \A m \in DOMAIN ids : ids[m] = i => m <= n) - 1
            ELSE @ + 10000]]

\* What a draft becomes when the rules of a revision are written into it.
Written(rules) ==
    [i \in Range(Ids(rules)) |->
        LET n == CHOOSE n \in DOMAIN rules : rules[n].id = i
        IN  [rules[n] EXCEPT !.position = n - 1]]

IsLocal(rule) == rule.sort \in 1..NumLocals
IsLocked(rule) == rule.sort # User

-----------------------------------------------------------------------------
(* The draft *)

\* A new rule goes behind the local networks.
Add(i, look) ==
    /\ i \in Rules \ DOMAIN draft
    /\ LET locals == ByPosition({rule \in Rows : IsLocal(rule)})
           others == ByPosition({rule \in Rows : ~IsLocal(rule)})
           new == [id |-> i, sort |-> User, look |-> look, position |-> Len(locals)]
           with == [j \in DOMAIN draft \cup {i} |-> IF j = i THEN new ELSE draft[j]]
       IN  draft' = Renumbered(with, Ids(locals) \o <<i>> \o Ids(others))
    /\ UNCHANGED <<revisions, active>>

\* The local networks change together; of a locked rule only the action changes, which
\* Looks does not tell from the rest.
Update(i, look) ==
    /\ i \in DOMAIN draft
    /\ draft' = [j \in DOMAIN draft |->
                    IF j = i \/ (IsLocal(draft[i]) /\ IsLocal(draft[j]))
                    THEN [draft[j] EXCEPT !.look = look] ELSE draft[j]]
    /\ UNCHANGED <<revisions, active>>

\* The positions that are left are closed up.
RemoveRule(i) ==
    /\ i \in DOMAIN draft
    /\ ~IsLocked(draft[i])
    /\ LET left == ByPosition({rule \in Rows : rule.id # i})
       IN  draft' = Renumbered([j \in DOMAIN draft \ {i} |-> draft[j]], Ids(left))
    /\ UNCHANGED <<revisions, active>>

Reorders(ids) ==
    /\ Len(ids) = Cardinality(DOMAIN draft)
    /\ Range(ids) \subseteq DOMAIN draft
    /\ Complete => Range(ids) = DOMAIN draft
    /\ draft' = Renumbered(draft, ids)
    /\ UNCHANGED <<revisions, active>>

\* The rule for everything else may go anywhere.
Bug_ReorderFreely(ids) ==
    /\ \A n \in 1..NumLocals : draft[ids[n]].sort = n
    /\ Reorders(ids)

\* The length, the membership and the two ends of the list are tested.
Reorder(ids) ==
    /\ \A n \in 1..NumLocals : draft[ids[n]].sort = n
    /\ draft[ids[Len(ids)]].sort = Rest
    /\ Reorders(ids)

-----------------------------------------------------------------------------
(* Revisions *)

Publishes(rules) ==
    /\ Len(revisions) < MaxRevisions
    /\ revisions' = Append(revisions, rules)
    /\ active' = Len(revisions) + 1

Publish ==
    /\ draft # << >>
    /\ Publishes(Ordered)
    /\ UNCHANGED draft

\* The version goes live and the draft stays.
Bug_RollbackOnly(v) ==
    /\ v \in DOMAIN revisions
    /\ Publishes(revisions[v])
    /\ UNCHANGED draft

\* The rules of the revision are published again, and become the draft.  Their ids are new;
\* here they keep those they had.
Rollback(v) ==
    /\ v \in DOMAIN revisions
    /\ Publishes(revisions[v])
    /\ draft' = Written(revisions[v])

Discard ==
    /\ active # 0
    /\ draft' = Written(revisions[active])
    /\ UNCHANGED <<revisions, active>>

RoutesNext ==
    \/ \E i \in Rules :
          \/ RemoveRule(i)
          \/ \E look \in Looks : Add(i, look) \/ Update(i, look)
    \/ \E ids \in [1..Cardinality(DOMAIN draft) -> DOMAIN draft] : Reorder(ids)
    \/ Publish \/ Discard
    \/ \E v \in DOMAIN revisions : Rollback(v)

RoutesSpec == RoutesInit /\ [][RoutesNext]_routesVars

-----------------------------------------------------------------------------
(* Properties *)

\* The local networks in their order, then the owner's rules, then everything else.
InOrder(rules) ==
    /\ \A n \in DOMAIN rules : rules[n].sort = IF n <= NumLocals THEN n
                                               ELSE IF n = Len(rules) THEN Rest ELSE User
    /\ Len(rules) > NumLocals

\* Through additions, removals, reorderings, roll-backs and discards the draft and all
\* that is published keep the local networks first and the rule for everything else last,
\* behind which no rule would apply ("keeps catch-all last", routes.test.ts).
EverythingElseIsLast ==
    /\ InOrder(Ordered)
    /\ \A v \in DOMAIN revisions : InOrder(revisions[v])

\* What "dirty" compares, the positions among it.
Dirty ==
    active = 0 \/ Ordered # revisions[active]

\* After a publication, a roll-back or a discard, the draft is what is published.
CleanWhenPublished ==
    [][active' # active \/ Discard => ~Dirty']_routesVars

=============================================================================
