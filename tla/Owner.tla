------------------------------- MODULE Owner -------------------------------
(***************************************************************************)
(* The owner of the panel (auth/webauthn.ts): the bootstrap link, WebAuthn *)
(* registrations and logins, passkeys and sessions.  Options are generated *)
(* and responses verified between two awaits, so what was read before them *)
(* may have changed when the rows are written; the transaction, the keys   *)
(* and the foreign keys of the tables have to hold it together.            *)
(***************************************************************************)
EXTENDS Naturals, FiniteSets

CONSTANTS
    Challenges,     \* their ids, and the owner ids that registrations draw
    Keys,           \* credential ids
    Sessions,
    Limit,          \* challengeLimitPerKind; 100 in the code
    Nobody,
    MaxLinks        \* bound: bootstrap links

ASSUME OwnerAssumption ==
    /\ IsFiniteSet(Challenges)
    /\ Nobody \notin Challenges
    /\ Limit \in Nat
    /\ MaxLinks \in Nat \ {0}

VARIABLES
    owner,          \* the row of owners, by its id
    passkeys,       \* owner_id of each; Nobody: no row
    sessions,       \* likewise
    bootstrap,      \* the link whose hash is stored and has not expired; 0: none
    links,          \* links made so far
    unused,         \* ids that no challenge has had
    stored,         \* rows of webauthn_challenges
    asked,          \* requests for options that are awaited
    verifying,      \* responses that are being verified
    reset           \* history: whether the link has been reset since there is an owner

ownerVars == <<owner, passkeys, sessions, bootstrap, links, unused, stored, asked, verifying,
               reset>>

Kinds == {"registration", "authentication"}
Challenge == [id : Challenges, kind : Kinds, owner : Challenges, link : 0..MaxLinks]

Of(kind) == {c \in stored : c.kind = kind}

OwnerTypeOK ==
    /\ owner \in Challenges \cup {Nobody}
    /\ passkeys \in [Keys -> Challenges \cup {Nobody}]
    /\ sessions \in [Sessions -> Challenges \cup {Nobody}]
    /\ bootstrap \in 0..MaxLinks
    /\ links \in 0..MaxLinks
    /\ unused \subseteq Challenges
    /\ stored \subseteq Challenge
    /\ asked \subseteq Challenge
    /\ verifying \subseteq [challenge : Challenge, key : Keys]
    /\ reset \in BOOLEAN

\* The service starts, and ensureBootstrap() prints the first link.
OwnerInit ==
    /\ owner = Nobody
    /\ passkeys = [k \in Keys |-> Nobody]
    /\ sessions = [s \in Sessions |-> Nobody]
    /\ bootstrap = 1
    /\ links = 1
    /\ unused = Challenges
    /\ stored = {}
    /\ asked = {}
    /\ verifying = {}
    /\ reset = FALSE

NewLink ==
    /\ links < MaxLinks
    /\ links' = links + 1
    /\ bootstrap' = links + 1

-----------------------------------------------------------------------------
(* Challenges *)

Asks(c, kind, id, link) ==
    /\ c \in unused
    /\ unused' = unused \ {c}
    /\ asked' = asked \cup {[id |-> c, kind |-> kind, owner |-> id, link |-> link]}
    /\ UNCHANGED <<owner, passkeys, sessions, bootstrap, links, stored, verifying, reset>>

\* registrationOptions: the owner with a session, or the link while there is no owner.
RegistrationOptions(c) ==
    \/ /\ owner # Nobody
       /\ \E s \in Sessions : sessions[s] = owner
       /\ Asks(c, "registration", owner, 0)
    \/ /\ owner = Nobody
       /\ bootstrap # 0
       /\ Asks(c, "registration", c, bootstrap)

AuthenticationOptions(c) ==
    /\ owner # Nobody
    /\ Asks(c, "authentication", owner, 0)

StoresIf(c, room) ==
    /\ c \in asked
    /\ asked' = asked \ {c}
    /\ stored' = IF room THEN stored \cup {c} ELSE stored
    /\ UNCHANGED <<owner, passkeys, sessions, bootstrap, links, unused, verifying, reset>>

\* The challenges are counted after the new one has been let in.
Bug_StoreOneMore(c) == StoresIf(c, Cardinality(Of(c.kind)) <= Limit)

\* The options are there: storeChallenge stores what finds room and refuses the rest (429).
Store(c) == StoresIf(c, Cardinality(Of(c.kind)) < Limit)

\* Whoever reads or counts challenges deletes the expired ones first (pruneChallenges).
Expire(c) ==
    /\ c \in stored
    /\ stored' = stored \ {c}
    /\ UNCHANGED <<owner, passkeys, sessions, bootstrap, links, unused, asked, verifying, reset>>

-----------------------------------------------------------------------------
(* Responses *)

Verify(c, k) ==
    /\ c \in stored
    /\ verifying' = verifying \cup {[challenge |-> c, key |-> k]}
    /\ UNCHANGED <<owner, passkeys, sessions, bootstrap, links, unused, stored, asked, reset>>

\* finishRegistration up to the await: the link must still be the one of the challenge.
FinishRegistration(c, k) ==
    /\ c.kind = "registration"
    /\ owner = Nobody => c.link # 0 /\ c.link = bootstrap
    /\ Verify(c, k)

\* finishAuthentication up to the await.
FinishAuthentication(c, k) ==
    /\ c.kind = "authentication"
    /\ passkeys[k] # Nobody
    /\ Verify(c, k)

VerificationFails(v) ==
    /\ v \in verifying
    /\ verifying' = verifying \ {v}
    /\ UNCHANGED <<owner, passkeys, sessions, bootstrap, links, unused, stored, asked, reset>>

CreateSession(id) ==
    \E s \in Sessions :
        /\ sessions[s] = Nobody
        /\ sessions' = [sessions EXCEPT ![s] = id]

Registers(v, link) ==
    LET c == v.challenge IN
        /\ c.kind = "registration"
        /\ v \in verifying
        /\ verifying' = verifying \ {v}
        /\ owner' = IF owner = Nobody THEN c.owner ELSE owner
        /\ passkeys' = [passkeys EXCEPT ![v.key] = c.owner]
        /\ stored' = stored \ {c}
        /\ bootstrap' = link
        /\ CreateSession(c.owner)
        /\ UNCHANGED <<links, unused, asked, reset>>

\* The foreign key of passkeys, and its primary key.
Accepted(v) == owner \in {Nobody, v.challenge.owner} /\ passkeys[v.key] = Nobody

\* Foreign keys are off.
Bug_RegisterForAnyone(v) == passkeys[v.key] = Nobody /\ Registers(v, 0)

\* The link is not taken back.
Bug_RegisterKeepsLink(v) == Accepted(v) /\ Registers(v, bootstrap)

\* The transaction: the owner, if there is none, the passkey, the challenge and the link.
Register(v) == Accepted(v) /\ Registers(v, 0)

\* A constraint fails: the transaction leaves nothing.
RegistrationRefused(v) ==
    /\ v.challenge.kind = "registration"
    /\ ~Accepted(v)
    /\ VerificationFails(v)

\* The counter is written and the session belongs to the owner of the passkey that was read,
\* which may have been revoked meanwhile.
LogIn(v) ==
    /\ v \in verifying
    /\ v.challenge.kind = "authentication"
    /\ verifying' = verifying \ {v}
    /\ stored' = stored \ {v.challenge}
    /\ CreateSession(v.challenge.owner)
    /\ UNCHANGED <<owner, passkeys, bootstrap, links, unused, asked, reset>>

-----------------------------------------------------------------------------
(* Passkeys, sessions and the link *)

\* The owner, with a session, revokes any passkey but the last.
RevokePasskey(k) ==
    /\ \E s \in Sessions : sessions[s] # Nobody
    /\ Cardinality({l \in Keys : passkeys[l] = owner}) > 1
    /\ passkeys[k] # Nobody
    /\ passkeys' = [passkeys EXCEPT ![k] = Nobody]
    /\ UNCHANGED <<owner, sessions, bootstrap, links, unused, stored, asked, verifying, reset>>

SessionsLeft(remaining) ==
    /\ sessions' = [s \in Sessions |-> IF s \in remaining THEN sessions[s] ELSE Nobody]
    /\ UNCHANGED <<owner, passkeys, bootstrap, links, unused, stored, asked, verifying, reset>>

\* A session logs out, is ended by another one, or expires.
EndSession(s) == sessions[s] # Nobody /\ SessionsLeft(Sessions \ {s})

EndOtherSessions(s) == sessions[s] # Nobody /\ SessionsLeft({s})

LinkExpires ==
    /\ bootstrap # 0
    /\ bootstrap' = 0
    /\ UNCHANGED <<owner, passkeys, sessions, links, unused, stored, asked, verifying, reset>>

\* matreshkactl bootstrap-reset, a process of its own.
ResetBootstrap ==
    /\ NewLink
    /\ sessions' = [s \in Sessions |-> IF sessions[s] = owner THEN Nobody ELSE sessions[s]]
    /\ reset' = (reset \/ owner # Nobody)
    /\ UNCHANGED <<owner, passkeys, unused, stored, asked, verifying>>

\* The process forgets what it awaits, and starts with ensureBootstrap().
RestartService ==
    /\ asked' = {}
    /\ verifying' = {}
    /\ IF owner = Nobody /\ bootstrap = 0 THEN NewLink ELSE UNCHANGED <<bootstrap, links>>
    /\ UNCHANGED <<owner, passkeys, sessions, unused, stored, reset>>

OwnerNext ==
    \/ \E c \in Challenges : RegistrationOptions(c) \/ AuthenticationOptions(c)
    \/ \E c \in asked : Store(c)
    \/ \E c \in stored :
          \/ Expire(c)
          \/ \E k \in Keys : FinishRegistration(c, k) \/ FinishAuthentication(c, k)
    \/ \E v \in verifying :
          \/ Register(v) \/ RegistrationRefused(v) \/ LogIn(v) \/ VerificationFails(v)
    \/ \E k \in Keys : RevokePasskey(k)
    \/ \E s \in Sessions : EndSession(s) \/ EndOtherSessions(s)
    \/ LinkExpires \/ ResetBootstrap \/ RestartService

OwnerSpec == OwnerInit /\ [][OwnerNext]_ownerVars

-----------------------------------------------------------------------------
(* Properties *)

\* However many registrations, logins and revocations are verified at the same time, there
\* is one owner, every passkey and every session is the owner's, and an owner always has a
\* passkey to log in with (finishRegistration, revokePasskey).
OwnerKeepsTheKeys ==
    /\ owner # Nobody <=> \E k \in Keys : passkeys[k] # Nobody
    /\ \A k \in Keys : passkeys[k] \in {owner, Nobody}
    /\ \A s \in Sessions : sessions[s] \in {owner, Nobody}

\* Overlapping requests for options never hold more rows than the limit of their kind
\* (storeChallenge).
ChallengesLimited == \A kind \in Kinds : Cardinality(Of(kind)) <= Limit

\* "After the first successful WebAuthn registration the bootstrap token is revoked"
\* (ARCHITECTURE.md), whoever else was registering with it; a later reset makes another.
LinkIsSpent == owner # Nobody /\ ~reset => bootstrap = 0

=============================================================================
