---------------------------- MODULE PanelProofs ----------------------------
(***************************************************************************)
(* Proofs about the tables of the panel.  Owner: however many requests are *)
(* verified at the same time, there is one owner who has every passkey and *)
(* every session and never none to log in with, the link is spent with the *)
(* registration, and no kind of challenge has more rows than its limit.    *)
(* Routes: the rule for everything else stays the last one, in the draft   *)
(* and in every revision, and publishing leaves nothing unpublished.       *)
(* Journal: the pages that are shown join, whatever is chosen or recorded  *)
(* while they are on their way.                                            *)
(***************************************************************************)
EXTENDS Owner, Routes, Journal, Sums, FiniteSetTheorems, SequenceTheorems, TLAPS

-----------------------------------------------------------------------------
(* The owner *)

\* Every challenge there is, wherever it is.
Known == stored \cup asked \cup {v.challenge : v \in verifying}

\* Whoever asks to log in asks to be the owner, who stays.
AsksForOwner ==
    \A c \in Known : c.kind = "authentication" => owner # Nobody /\ c.owner = owner

OwnerIInv == OwnerTypeOK /\ OwnerKeepsTheKeys /\ AsksForOwner

\* The rows can be counted.
Limits == IsFiniteSet(stored) /\ ChallengesLimited

LEMMA InitOwner == OwnerInit => OwnerIInv /\ LinkIsSpent /\ Limits
<1> SUFFICES ASSUME OwnerInit PROVE OwnerIInv /\ LinkIsSpent /\ Limits
  OBVIOUS
<1> USE OwnerAssumption
<1>1. OwnerTypeOK
  <2>1. bootstrap \in 0..MaxLinks /\ links \in 0..MaxLinks
    BY DEF OwnerInit
  <2>2. /\ passkeys \in [Keys -> Challenges \cup {Nobody}]
        /\ sessions \in [Sessions -> Challenges \cup {Nobody}]
    BY DEF OwnerInit
  <2>3. stored = {} /\ asked = {} /\ verifying = {}
    BY DEF OwnerInit
  <2>. QED BY <2>1, <2>2, <2>3 DEF OwnerInit, OwnerTypeOK
<1>2. OwnerKeepsTheKeys /\ AsksForOwner /\ LinkIsSpent
  BY DEF OwnerInit, OwnerKeepsTheKeys, AsksForOwner, Known, LinkIsSpent
<1>3. Limits
  <2>1. IsFiniteSet({}) /\ Cardinality({}) = 0
    BY FS_EmptySet
  <2>2. \A kind \in Kinds : Of(kind) = {}
    BY DEF OwnerInit, Of
  <2>. QED BY <2>1, <2>2 DEF OwnerInit, Limits, ChallengesLimited
<1>. QED BY <1>1, <1>2, <1>3 DEF OwnerIInv

\* Types.
LEMMA TypeStep ==
    ASSUME OwnerTypeOK, [OwnerNext]_ownerVars
    PROVE  OwnerTypeOK'
<1> USE OwnerAssumption DEF OwnerTypeOK, Challenge, Kinds
<1>1. ASSUME NEW c \in Challenges, RegistrationOptions(c) PROVE OwnerTypeOK'
  BY <1>1 DEF RegistrationOptions, Asks
<1>2. ASSUME NEW c \in Challenges, AuthenticationOptions(c) PROVE OwnerTypeOK'
  BY <1>2 DEF AuthenticationOptions, Asks
<1>3. ASSUME NEW c \in asked, Store(c) PROVE OwnerTypeOK'
  BY <1>3 DEF Store, StoresIf
<1>4. ASSUME NEW c \in stored, Expire(c) PROVE OwnerTypeOK'
  BY <1>4 DEF Expire
<1>5. ASSUME NEW c \in stored, NEW k \in Keys, FinishRegistration(c, k) PROVE OwnerTypeOK'
  BY <1>5 DEF FinishRegistration, Verify
<1>6. ASSUME NEW c \in stored, NEW k \in Keys, FinishAuthentication(c, k) PROVE OwnerTypeOK'
  BY <1>6 DEF FinishAuthentication, Verify
<1>7. ASSUME NEW v \in verifying, Register(v) PROVE OwnerTypeOK'
  BY <1>7 DEF Register, Registers, Accepted, CreateSession
<1>8. ASSUME NEW v \in verifying, RegistrationRefused(v) PROVE OwnerTypeOK'
  BY <1>8 DEF RegistrationRefused, VerificationFails
<1>9. ASSUME NEW v \in verifying, LogIn(v) PROVE OwnerTypeOK'
  BY <1>9 DEF LogIn, CreateSession
<1>10. ASSUME NEW v \in verifying, VerificationFails(v) PROVE OwnerTypeOK'
  BY <1>10 DEF VerificationFails
<1>11. ASSUME NEW k \in Keys, RevokePasskey(k) PROVE OwnerTypeOK'
  BY <1>11 DEF RevokePasskey
<1>12. ASSUME NEW s \in Sessions, EndSession(s) PROVE OwnerTypeOK'
  BY <1>12 DEF EndSession, SessionsLeft
<1>13. ASSUME NEW s \in Sessions, EndOtherSessions(s) PROVE OwnerTypeOK'
  BY <1>13 DEF EndOtherSessions, SessionsLeft
<1>14. CASE LinkExpires
  BY <1>14 DEF LinkExpires
<1>15. CASE ResetBootstrap
  BY <1>15 DEF ResetBootstrap, NewLink
<1>16. CASE RestartService
  BY <1>16 DEF RestartService, NewLink
<1>17. CASE UNCHANGED ownerVars
  BY <1>17 DEF ownerVars
<1>. QED
  BY <1>1, <1>2, <1>3, <1>4, <1>5, <1>6, <1>7, <1>8, <1>9, <1>10, <1>11, <1>12, <1>13,
  <1>14, <1>15, <1>16, <1>17 DEF OwnerNext

\* An owner stays, is joined by nobody, and never gives the last passkey away.
LEMMA KeysStep ==
    ASSUME OwnerTypeOK, AsksForOwner, OwnerKeepsTheKeys, [OwnerNext]_ownerVars
    PROVE  OwnerKeepsTheKeys'
<1> USE OwnerAssumption DEF OwnerTypeOK, OwnerKeepsTheKeys, AsksForOwner, Known, Challenge
<1>1. ASSUME NEW c \in Challenges, RegistrationOptions(c) PROVE OwnerKeepsTheKeys'
  BY <1>1 DEF RegistrationOptions, Asks
<1>2. ASSUME NEW c \in Challenges, AuthenticationOptions(c) PROVE OwnerKeepsTheKeys'
  BY <1>2 DEF AuthenticationOptions, Asks
<1>3. ASSUME NEW c \in asked, Store(c) PROVE OwnerKeepsTheKeys'
  BY <1>3 DEF Store, StoresIf
<1>4. ASSUME NEW c \in stored, Expire(c) PROVE OwnerKeepsTheKeys'
  BY <1>4 DEF Expire
<1>5. ASSUME NEW c \in stored, NEW k \in Keys, FinishRegistration(c, k) PROVE OwnerKeepsTheKeys'
  BY <1>5 DEF FinishRegistration, Verify
<1>6. ASSUME NEW c \in stored, NEW k \in Keys, FinishAuthentication(c, k) PROVE OwnerKeepsTheKeys'
  BY <1>6 DEF FinishAuthentication, Verify
<1>7. ASSUME NEW v \in verifying, Register(v) PROVE OwnerKeepsTheKeys'
  BY <1>7 DEF Register, Registers, Accepted, CreateSession
<1>8. ASSUME NEW v \in verifying, RegistrationRefused(v) PROVE OwnerKeepsTheKeys'
  BY <1>8 DEF RegistrationRefused, VerificationFails
<1>9. ASSUME NEW v \in verifying, LogIn(v) PROVE OwnerKeepsTheKeys'
  BY <1>9 DEF LogIn, CreateSession
<1>10. ASSUME NEW v \in verifying, VerificationFails(v) PROVE OwnerKeepsTheKeys'
  BY <1>10 DEF VerificationFails
<1>11. ASSUME NEW k \in Keys, RevokePasskey(k) PROVE OwnerKeepsTheKeys'
  <2>1. PICK l \in Keys : l # k /\ passkeys[l] = owner
    <3> DEFINE mine == {l \in Keys : passkeys[l] = owner}
    <3>1. Cardinality(mine) > 1
      BY <1>11 DEF RevokePasskey
    <3>2. ~(mine \subseteq {k})
      <4> SUFFICES ASSUME mine \subseteq {k} PROVE FALSE
        OBVIOUS
      <4>1. IsFiniteSet({k}) /\ Cardinality({k}) = 1
        BY FS_Singleton
      <4>2. Cardinality(mine) \leq 1 /\ Cardinality(mine) \in Nat
        BY <4>1, FS_Subset, FS_CardinalityType
      <4>. QED BY <3>1, <4>2
    <3>. QED BY <3>2
  <2>2. passkeys'[l] = owner /\ owner # Nobody
    BY <1>11, <2>1 DEF RevokePasskey, OwnerTypeOK
  <2>. QED BY <1>11, <2>1, <2>2 DEF RevokePasskey, OwnerTypeOK
<1>12. ASSUME NEW s \in Sessions, EndSession(s) PROVE OwnerKeepsTheKeys'
  BY <1>12 DEF EndSession, SessionsLeft
<1>13. ASSUME NEW s \in Sessions, EndOtherSessions(s) PROVE OwnerKeepsTheKeys'
  BY <1>13 DEF EndOtherSessions, SessionsLeft
<1>14. CASE LinkExpires
  BY <1>14 DEF LinkExpires
<1>15. CASE ResetBootstrap
  BY <1>15 DEF ResetBootstrap, NewLink
<1>16. CASE RestartService
  BY <1>16 DEF RestartService, NewLink
<1>17. CASE UNCHANGED ownerVars
  BY <1>17 DEF ownerVars
<1>. QED
  BY <1>1, <1>2, <1>3, <1>4, <1>5, <1>6, <1>7, <1>8, <1>9, <1>10, <1>11, <1>12, <1>13,
  <1>14, <1>15, <1>16, <1>17 DEF OwnerNext

\* Challenges to log in are the owner's.
LEMMA AskedStep ==
    ASSUME OwnerTypeOK, AsksForOwner, [OwnerNext]_ownerVars
    PROVE  AsksForOwner'
<1> USE OwnerAssumption DEF OwnerTypeOK, AsksForOwner, Known, Challenge
<1>1. ASSUME NEW c \in Challenges, RegistrationOptions(c) PROVE AsksForOwner'
  BY <1>1 DEF RegistrationOptions, Asks
<1>2. ASSUME NEW c \in Challenges, AuthenticationOptions(c) PROVE AsksForOwner'
  BY <1>2 DEF AuthenticationOptions, Asks
<1>3. ASSUME NEW c \in asked, Store(c) PROVE AsksForOwner'
  BY <1>3 DEF Store, StoresIf
<1>4. ASSUME NEW c \in stored, Expire(c) PROVE AsksForOwner'
  BY <1>4 DEF Expire
<1>5. ASSUME NEW c \in stored, NEW k \in Keys, FinishRegistration(c, k) PROVE AsksForOwner'
  BY <1>5 DEF FinishRegistration, Verify
<1>6. ASSUME NEW c \in stored, NEW k \in Keys, FinishAuthentication(c, k) PROVE AsksForOwner'
  BY <1>6 DEF FinishAuthentication, Verify
<1>7. ASSUME NEW v \in verifying, Register(v) PROVE AsksForOwner'
  BY <1>7 DEF Register, Registers, Accepted, CreateSession
<1>8. ASSUME NEW v \in verifying, RegistrationRefused(v) PROVE AsksForOwner'
  BY <1>8 DEF RegistrationRefused, VerificationFails
<1>9. ASSUME NEW v \in verifying, LogIn(v) PROVE AsksForOwner'
  BY <1>9 DEF LogIn, CreateSession
<1>10. ASSUME NEW v \in verifying, VerificationFails(v) PROVE AsksForOwner'
  BY <1>10 DEF VerificationFails
<1>11. ASSUME NEW k \in Keys, RevokePasskey(k) PROVE AsksForOwner'
  BY <1>11 DEF RevokePasskey
<1>12. ASSUME NEW s \in Sessions, EndSession(s) PROVE AsksForOwner'
  BY <1>12 DEF EndSession, SessionsLeft
<1>13. ASSUME NEW s \in Sessions, EndOtherSessions(s) PROVE AsksForOwner'
  BY <1>13 DEF EndOtherSessions, SessionsLeft
<1>14. CASE LinkExpires
  BY <1>14 DEF LinkExpires
<1>15. CASE ResetBootstrap
  BY <1>15 DEF ResetBootstrap, NewLink
<1>16. CASE RestartService
  BY <1>16 DEF RestartService, NewLink
<1>17. CASE UNCHANGED ownerVars
  BY <1>17 DEF ownerVars
<1>. QED
  BY <1>1, <1>2, <1>3, <1>4, <1>5, <1>6, <1>7, <1>8, <1>9, <1>10, <1>11, <1>12, <1>13,
  <1>14, <1>15, <1>16, <1>17 DEF OwnerNext

\* The registration spends the link, and a restart makes none for an owner.
LEMMA LinkStep ==
    ASSUME OwnerTypeOK, LinkIsSpent, [OwnerNext]_ownerVars
    PROVE  LinkIsSpent'
<1> USE OwnerAssumption DEF OwnerTypeOK, LinkIsSpent
<1>1. ASSUME NEW c \in Challenges, RegistrationOptions(c) PROVE LinkIsSpent'
  BY <1>1 DEF RegistrationOptions, Asks
<1>2. ASSUME NEW c \in Challenges, AuthenticationOptions(c) PROVE LinkIsSpent'
  BY <1>2 DEF AuthenticationOptions, Asks
<1>3. ASSUME NEW c \in asked, Store(c) PROVE LinkIsSpent'
  BY <1>3 DEF Store, StoresIf
<1>4. ASSUME NEW c \in stored, Expire(c) PROVE LinkIsSpent'
  BY <1>4 DEF Expire
<1>5. ASSUME NEW c \in stored, NEW k \in Keys, FinishRegistration(c, k) PROVE LinkIsSpent'
  BY <1>5 DEF FinishRegistration, Verify
<1>6. ASSUME NEW c \in stored, NEW k \in Keys, FinishAuthentication(c, k) PROVE LinkIsSpent'
  BY <1>6 DEF FinishAuthentication, Verify
<1>7. ASSUME NEW v \in verifying, Register(v) PROVE LinkIsSpent'
  BY <1>7 DEF Register, Registers, Accepted, CreateSession
<1>8. ASSUME NEW v \in verifying, RegistrationRefused(v) PROVE LinkIsSpent'
  BY <1>8 DEF RegistrationRefused, VerificationFails
<1>9. ASSUME NEW v \in verifying, LogIn(v) PROVE LinkIsSpent'
  BY <1>9 DEF LogIn, CreateSession
<1>10. ASSUME NEW v \in verifying, VerificationFails(v) PROVE LinkIsSpent'
  BY <1>10 DEF VerificationFails
<1>11. ASSUME NEW k \in Keys, RevokePasskey(k) PROVE LinkIsSpent'
  BY <1>11 DEF RevokePasskey
<1>12. ASSUME NEW s \in Sessions, EndSession(s) PROVE LinkIsSpent'
  BY <1>12 DEF EndSession, SessionsLeft
<1>13. ASSUME NEW s \in Sessions, EndOtherSessions(s) PROVE LinkIsSpent'
  BY <1>13 DEF EndOtherSessions, SessionsLeft
<1>14. CASE LinkExpires
  BY <1>14 DEF LinkExpires
<1>15. CASE ResetBootstrap
  BY <1>15 DEF ResetBootstrap, NewLink
<1>16. CASE RestartService
  BY <1>16 DEF RestartService, NewLink
<1>17. CASE UNCHANGED ownerVars
  BY <1>17 DEF ownerVars
<1>. QED
  BY <1>1, <1>2, <1>3, <1>4, <1>5, <1>6, <1>7, <1>8, <1>9, <1>10, <1>11, <1>12, <1>13,
  <1>14, <1>15, <1>16, <1>17 DEF OwnerNext

\* Rows that are left are at most those that were there.
LEMMA FewerRows ==
    ASSUME Limits, stored' \subseteq stored PROVE Limits'
<1>1. IsFiniteSet(stored')
  BY FS_Subset DEF Limits
<1>2. ASSUME NEW kind \in Kinds PROVE Cardinality(Of(kind)') \leq Limit
  <2>1. Of(kind)' \subseteq Of(kind)
    BY DEF Of
  <2>2. IsFiniteSet(Of(kind)) /\ Cardinality(Of(kind)) \leq Limit
    BY FS_Subset DEF Of, Limits, ChallengesLimited
  <2>3. IsFiniteSet(Of(kind)') /\ Cardinality(Of(kind)') \leq Cardinality(Of(kind))
    BY <2>1, <2>2, FS_Subset
  <2>4. Cardinality(Of(kind)) \in Nat /\ Cardinality(Of(kind)') \in Nat
    BY <2>2, <2>3, FS_CardinalityType
  <2>. QED BY <2>2, <2>3, <2>4, OwnerAssumption
<1>. QED BY <1>1, <1>2 DEF Limits, ChallengesLimited

\* Rows are only added below the limit of their kind.
LEMMA LimitsStep ==
    ASSUME Limits, [OwnerNext]_ownerVars
    PROVE  Limits'
<1> USE OwnerAssumption DEF Limits, ChallengesLimited, Of
<1>1. ASSUME NEW c \in Challenges, RegistrationOptions(c) PROVE Limits'
  BY <1>1, FewerRows DEF RegistrationOptions, Asks
<1>2. ASSUME NEW c \in Challenges, AuthenticationOptions(c) PROVE Limits'
  BY <1>2, FewerRows DEF AuthenticationOptions, Asks
<1>3. ASSUME NEW c \in asked, Store(c) PROVE Limits'
  <2>1. CASE ~(Cardinality(Of(c.kind)) < Limit)
    BY <1>3, <2>1 DEF Store, StoresIf
  <2>2. CASE Cardinality(Of(c.kind)) < Limit
    <3>1. stored' = stored \cup {c}
      BY <1>3, <2>2 DEF Store, StoresIf
    <3>2. IsFiniteSet(stored')
      BY <3>1, FS_AddElement
    <3>3. ASSUME NEW kind \in Kinds PROVE Cardinality(Of(kind)') \leq Limit
      <4>1. IsFiniteSet(Of(kind)) /\ Cardinality(Of(kind)) \leq Limit
        BY FS_Subset
      <4>2. CASE kind # c.kind
        BY <3>1, <4>1, <4>2
      <4>3. CASE kind = c.kind
        <5>1. Of(kind)' = Of(kind) \cup {c}
          BY <3>1, <4>3
        <5>2. /\ Cardinality(Of(kind)) \in Nat
              /\ Cardinality(Of(kind) \cup {c}) \in {Cardinality(Of(kind)), Cardinality(Of(kind)) + 1}
          BY <4>1, FS_AddElement, FS_CardinalityType
        <5>. QED BY <2>2, <4>3, <5>1, <5>2
      <4>. QED BY <4>2, <4>3
    <3>. QED BY <3>2, <3>3
  <2>. QED BY <2>1, <2>2
<1>4. ASSUME NEW c \in stored, Expire(c) PROVE Limits'
  BY <1>4, FewerRows DEF Expire
<1>5. ASSUME NEW c \in stored, NEW k \in Keys, FinishRegistration(c, k) PROVE Limits'
  BY <1>5, FewerRows DEF FinishRegistration, Verify
<1>6. ASSUME NEW c \in stored, NEW k \in Keys, FinishAuthentication(c, k) PROVE Limits'
  BY <1>6, FewerRows DEF FinishAuthentication, Verify
<1>7. ASSUME NEW v \in verifying, Register(v) PROVE Limits'
  BY <1>7, FewerRows DEF Register, Registers, Accepted, CreateSession
<1>8. ASSUME NEW v \in verifying, RegistrationRefused(v) PROVE Limits'
  BY <1>8, FewerRows DEF RegistrationRefused, VerificationFails
<1>9. ASSUME NEW v \in verifying, LogIn(v) PROVE Limits'
  BY <1>9, FewerRows DEF LogIn, CreateSession
<1>10. ASSUME NEW v \in verifying, VerificationFails(v) PROVE Limits'
  BY <1>10, FewerRows DEF VerificationFails
<1>11. ASSUME NEW k \in Keys, RevokePasskey(k) PROVE Limits'
  BY <1>11, FewerRows DEF RevokePasskey
<1>12. ASSUME NEW s \in Sessions, EndSession(s) PROVE Limits'
  BY <1>12, FewerRows DEF EndSession, SessionsLeft
<1>13. ASSUME NEW s \in Sessions, EndOtherSessions(s) PROVE Limits'
  BY <1>13, FewerRows DEF EndOtherSessions, SessionsLeft
<1>14. CASE LinkExpires
  BY <1>14, FewerRows DEF LinkExpires
<1>15. CASE ResetBootstrap
  BY <1>15, FewerRows DEF ResetBootstrap, NewLink
<1>16. CASE RestartService
  BY <1>16, FewerRows DEF RestartService, NewLink
<1>17. CASE UNCHANGED ownerVars
  BY <1>17, FewerRows DEF ownerVars
<1>. QED
  BY <1>1, <1>2, <1>3, <1>4, <1>5, <1>6, <1>7, <1>8, <1>9, <1>10, <1>11, <1>12, <1>13,
  <1>14, <1>15, <1>16, <1>17 DEF OwnerNext

-----------------------------------------------------------------------------
(* The owner: the theorems *)

LEMMA StepOwner ==
    ASSUME OwnerIInv, [OwnerNext]_ownerVars PROVE OwnerIInv'
BY TypeStep, KeysStep, AskedStep DEF OwnerIInv

\* The tables of the authentication always have their types.
THEOREM OwnerTypeCorrect == OwnerSpec => []OwnerTypeOK
<1>1. OwnerIInv => OwnerTypeOK
  BY DEF OwnerIInv
<1>. QED BY <1>1, InitOwner, StepOwner, PTL DEF OwnerSpec

\* For every number of overlapping registrations, logins and revocations: one owner, who has
\* every passkey and every session, and at least one passkey.
THEOREM OneOwner == OwnerSpec => []OwnerKeepsTheKeys
<1>1. OwnerIInv => OwnerKeepsTheKeys
  BY DEF OwnerIInv
<1>. QED BY <1>1, InitOwner, StepOwner, PTL DEF OwnerSpec

\* The bootstrap link is spent with the first registration.
THEOREM LinkSpent == OwnerSpec => []LinkIsSpent
<1>1. OwnerIInv => OwnerTypeOK
  BY DEF OwnerIInv
<1>. QED BY <1>1, InitOwner, StepOwner, LinkStep, PTL DEF OwnerSpec

\* Requests for options that overlap do not get past the limit of their kind together.
THEOREM RowsLimited == OwnerSpec => []ChallengesLimited
<1>1. Limits => ChallengesLimited
  BY DEF Limits
<1>. QED BY <1>1, InitOwner, LimitsStep, PTL DEF OwnerSpec

-----------------------------------------------------------------------------
(* Lists *)

\* A list in which each row stands behind those before it ...
Increasing(list, n, before) == \A i, j \in 1..n : i < j => <<list[i], list[j]>> \in before

\* ... of an order ...
Asymmetric(before) == \A a, b : <<a, b>> \in before => <<b, a>> \notin before

\* ... has each row once ...
LEMMA ListIsInjective ==
    ASSUME NEW rows, NEW before, Asymmetric(before), NEW n \in Nat,
           NEW list \in [1..n -> rows], Increasing(list, n, before)
    PROVE  list \in Injection(1..n, rows)
<1>1. ASSUME NEW i \in 1..n, NEW j \in 1..n, list[i] = list[j]
      PROVE  i = j
  <2>1. ~(i < j) /\ ~(j < i)
    BY <1>1 DEF Increasing, Asymmetric
  <2>. QED BY <2>1
<1>. QED BY <1>1 DEF Injection, IsInjective

\* ... and when it has every row it is the list of the query.
LEMMA ListedIs ==
    ASSUME NEW rows, NEW before, Asymmetric(before), NEW n \in Nat,
           NEW list \in [1..n -> rows], Increasing(list, n, before),
           \A r \in rows : \E i \in 1..n : list[i] = r
    PROVE  /\ Listed(rows, before) = list
           /\ IsFiniteSet(rows) /\ Cardinality(rows) = n
<1>1. list \in Bijection(1..n, rows)
  BY ListIsInjective DEF Bijection, Surjection
<1>2. IsFiniteSet(1..n) /\ Cardinality(1..n) = n
  BY FS_Interval
<1>3. IsFiniteSet(rows) /\ Cardinality(rows) = n
  <2>1. ExistsBijection(1..n, rows)
    BY <1>1 DEF ExistsBijection
  <2>. QED BY <1>2, <2>1, FS_Bijection
<1> DEFINE it == Listed(rows, before)
<1>4. it \in [1..n -> rows] /\ Increasing(it, n, before)
  <2>1. \E l \in [1..n -> rows] : \A i, j \in 1..n : i < j => <<l[i], l[j]>> \in before
    BY DEF Increasing
  <2>. QED BY <1>3, <2>1 DEF Listed, Increasing
<1> HIDE DEF it
<1>5. \A r \in rows : \E i \in 1..n : it[i] = r
  <2>1. it \in Injection(1..n, rows)
    BY <1>4, ListIsInjective
  <2>2. it \in Surjection(1..n, rows)
    BY <1>2, <1>3, <2>1, FS_Injection
  <2>. QED BY <2>2 DEF Surjection
<1> DEFINE differs == {m \in 1..n : it[m] # list[m]}
<1>6. ASSUME differs # {} PROVE FALSE
  <2>1. PICK m \in differs : \A k \in differs : <<k, m>> \notin Less
    <3>1. differs \subseteq Nat
      OBVIOUS
    <3> HIDE DEF differs
    <3>. QED BY <1>6, <3>1, LessWellFounded, WFMin
  <2>2. ASSUME NEW k \in 1..n, k < m PROVE it[k] = list[k]
    <3>1. <<k, m>> \in Less
      BY <2>2 DEF Less
    <3>. QED BY <2>1, <3>1
  <2>3. PICK j \in 1..n : list[j] = it[m]
    BY <1>4, <2>1
  <2>4. PICK l \in 1..n : it[l] = list[m]
    BY <1>5, <2>1
  <2>5. it \in Injection(1..n, rows) /\ list \in Injection(1..n, rows)
    BY <1>4, ListIsInjective
  <2>6. j # m /\ l # m
    BY <2>1, <2>3, <2>4
  <2>7. ~(j < m) /\ ~(l < m)
    <3>1. j < m => it[j] = it[m]
      BY <2>2, <2>3
    <3>2. l < m => list[l] = list[m]
      BY <2>2, <2>4
    <3>. QED BY <2>1, <2>5, <3>1, <3>2 DEF Injection, IsInjective
  <2>8. m < j /\ m < l
    BY <2>1, <2>6, <2>7
  <2>9. <<list[m], list[j]>> \in before /\ <<it[m], it[l]>> \in before
    BY <1>4, <2>1, <2>8 DEF Increasing
  <2>. QED BY <2>3, <2>4, <2>9 DEF Asymmetric
<1>7. it = list
  <2>1. \A i \in 1..n : it[i] = list[i]
    BY <1>6
  <2> HIDE DEF differs
  <2>. QED BY <1>4, <2>1
<1>. QED BY <1>3, <1>7 DEF it

\* The list of rows that is known to stand in the order of their positions.
LEMMA ByPositionIs ==
    ASSUME NEW rows, \A r \in rows : r.position \in Nat,
           NEW n \in Nat, NEW list \in [1..n -> rows],
           \A i, j \in 1..n : i < j => list[i].position < list[j].position,
           \A r \in rows : \E i \in 1..n : list[i] = r
    PROVE  ByPosition(rows) = list
<1> DEFINE before == {ab \in rows \X rows : ab[1].position < ab[2].position}
<1>1. Asymmetric(before)
  <2> SUFFICES ASSUME NEW a, NEW b, <<a, b>> \in before PROVE <<b, a>> \notin before
    BY DEF Asymmetric
  <2>. QED OBVIOUS
<1>2. Increasing(list, n, before)
  BY DEF Increasing
<1> HIDE DEF before
<1>3. Listed(rows, before) = list
  BY <1>1, <1>2, ListedIs
<1>. QED BY <1>3 DEF ByPosition, before

\* The order of a query: no two rows are both before each other, and of two rows one is.
Orders(before, rows) ==
    /\ Asymmetric(before)
    /\ \A a, b, c \in rows : <<a, b>> \in before /\ <<b, c>> \in before => <<a, c>> \in before
    /\ \A a, b \in rows : a # b => <<a, b>> \in before \/ <<b, a>> \in before

\* Every finite set can be listed: by the number of rows before each.
LEMMA ListExists ==
    ASSUME NEW rows, IsFiniteSet(rows), NEW before, Orders(before, rows)
    PROVE  \E list \in [1..Cardinality(rows) -> rows] :
              /\ Increasing(list, Cardinality(rows), before)
              /\ \A r \in rows : \E i \in 1..Cardinality(rows) : list[i] = r
<1> DEFINE N == Cardinality(rows)
           Below(e) == {d \in rows : <<d, e>> \in before}
           rank == [e \in rows |-> Cardinality(Below(e)) + 1]
<1>1. N \in Nat
  BY FS_CardinalityType
<1>2. ASSUME NEW e \in rows
      PROVE  /\ IsFiniteSet(Below(e)) /\ Cardinality(Below(e)) \in Nat
             /\ Cardinality(Below(e)) < N
  <2>1. Below(e) \in SUBSET rows /\ e \notin Below(e)
    BY DEF Orders, Asymmetric
  <2> HIDE DEF Below
  <2>2. IsFiniteSet(Below(e)) /\ Cardinality(Below(e)) \in Nat
    BY <2>1, FS_Subset, FS_CardinalityType
  <2>3. Cardinality(Below(e)) <= N /\ Cardinality(Below(e)) # N
    BY <2>1, FS_Subset
  <2>. QED BY <1>1, <2>2, <2>3
<1>3. ASSUME NEW d \in rows, NEW e \in rows, <<d, e>> \in before
      PROVE  Cardinality(Below(d)) < Cardinality(Below(e))
  <2>1. Below(d) \in SUBSET Below(e) /\ d \in Below(e) /\ d \notin Below(d)
    BY <1>3 DEF Orders, Asymmetric
  <2>2. IsFiniteSet(Below(e)) /\ Cardinality(Below(e)) \in Nat /\ Cardinality(Below(d)) \in Nat
    BY <1>2
  <2> HIDE DEF Below
  <2>3. Cardinality(Below(d)) <= Cardinality(Below(e)) /\ Cardinality(Below(d)) # Cardinality(Below(e))
    BY <2>1, <2>2, FS_Subset
  <2>. QED BY <2>2, <2>3
<1> HIDE DEF N, Below
<1>4. rank \in Injection(rows, 1..N)
  <2>1. \A e \in rows : rank[e] \in 1..N
    BY <1>1, <1>2
  <2>2. rank \in [rows -> 1..N]
    BY <2>1
  <2>3. ASSUME NEW d \in rows, NEW e \in rows, rank[d] = rank[e] PROVE d = e
    <3>1. Cardinality(Below(d)) = Cardinality(Below(e))
      BY <1>2, <2>3
    <3>2. <<d, e>> \notin before /\ <<e, d>> \notin before
      BY <1>2, <1>3, <3>1
    <3>. QED BY <3>2 DEF Orders
  <2> HIDE DEF rank
  <2>. QED BY <2>2, <2>3 DEF Injection, IsInjective
<1>5. rank \in Surjection(rows, 1..N)
  <2>1. IsFiniteSet(1..N) /\ Cardinality(1..N) = N
    BY <1>1, FS_Interval
  <2>. QED BY <1>4, <2>1, FS_Injection DEF N
<1> DEFINE list == [n \in 1..N |-> CHOOSE e \in rows : rank[e] = n]
<1>6. \A n \in 1..N : list[n] \in rows /\ rank[list[n]] = n
  <2>1. \A n \in 1..N : \E e \in rows : rank[e] = n
    BY <1>5 DEF Surjection
  <2> HIDE DEF rank
  <2>. QED BY <2>1
<1>7. list \in [1..N -> rows]
  BY <1>6
<1>8. ASSUME NEW i \in 1..N, NEW j \in 1..N, i < j PROVE <<list[i], list[j]>> \in before
  <2>1. list[i] \in rows /\ list[j] \in rows /\ rank[list[i]] = i /\ rank[list[j]] = j
    BY <1>6
  <2>2. Cardinality(Below(list[i])) < Cardinality(Below(list[j]))
    <3>1. \A e \in rows : rank[e] = Cardinality(Below(e)) + 1 /\ Cardinality(Below(e)) \in Nat
      BY <1>2
    <3> HIDE DEF list, rank
    <3>. QED BY <1>8, <2>1, <3>1
  <2> HIDE DEF list, rank
  <2>3. list[i] # list[j] /\ <<list[j], list[i]>> \notin before
    BY <1>2, <1>3, <2>1, <2>2
  <2>. QED BY <2>1, <2>3 DEF Orders
<1>9. ASSUME NEW r \in rows PROVE \E i \in 1..N : list[i] = r
  <2>1. rank[r] \in 1..N
    BY <1>4 DEF Injection
  <2>2. rank[list[rank[r]]] = rank[r] /\ list[rank[r]] \in rows
    BY <1>6, <2>1
  <2> HIDE DEF list, rank
  <2>3. list[rank[r]] = r
    BY <1>4, <2>2 DEF Injection, IsInjective
  <2>. QED BY <2>1, <2>3
<1> HIDE DEF list, rank
<1>. QED BY <1>7, <1>8, <1>9 DEF N, Increasing

\* The list of the query has every row once, in its order.
LEMMA ListedAll ==
    ASSUME NEW rows, IsFiniteSet(rows), NEW before, Orders(before, rows)
    PROVE  /\ Cardinality(rows) \in Nat
           /\ Listed(rows, before) \in [1..Cardinality(rows) -> rows]
           /\ Increasing(Listed(rows, before), Cardinality(rows), before)
           /\ \A r \in rows : \E i \in 1..Cardinality(rows) : Listed(rows, before)[i] = r
<1> DEFINE N == Cardinality(rows)
<1>1. N \in Nat
  BY FS_CardinalityType
<1>2. PICK list \in [1..N -> rows] :
          /\ Increasing(list, N, before)
          /\ \A r \in rows : \E i \in 1..N : list[i] = r
  BY ListExists
<1>3. Listed(rows, before) = list
  BY <1>1, <1>2, ListedIs DEF Orders
<1>. QED BY <1>1, <1>2, <1>3

-----------------------------------------------------------------------------
(* Routes: drafts and revisions *)

Row == [id : Rules, sort : 0..Rest, look : Looks, position : Nat]

\* The rows of a revision, and those that a draft has: one for each id, numbered from 0.
Good(list) ==
    /\ list \in Seq(Row)
    /\ \A m, n \in 1..Len(list) : list[m].id = list[n].id => m = n
    /\ \A n \in 1..Len(list) : list[n].position = n - 1
    /\ InOrder(list)

DraftIsGood == \E list \in Seq(Row) : Good(list) /\ draft = Written(list)

RoutesInv ==
    /\ DraftIsGood
    /\ revisions \in Seq(Seq(Row))
    /\ \A v \in 1..Len(revisions) : Good(revisions[v])
    /\ active \in 0..Len(revisions)

\* A function on the numbers to k is a list.
LEMMA IsList ==
    ASSUME NEW k \in Nat, NEW S, NEW list \in [1..k -> S]
    PROVE  list \in Seq(S) /\ Len(list) = k /\ DOMAIN list = 1..k
OBVIOUS

LEMMA SortsAre == User \in 0..Rest /\ Rest \in 0..Rest /\ Rest \in Nat /\ User # Rest
                  /\ \A n \in 1..NumLocals : n \in 0..Rest /\ n # User /\ n # Rest
BY RoutesAssumption DEF User, Rest

\* The draft that is written from a list has its rows under their ids.
LEMMA WrittenIs ==
    ASSUME NEW list, Good(list)
    PROVE  /\ DOMAIN Written(list) = {list[n].id : n \in 1..Len(list)}
           /\ \A n \in 1..Len(list) : Written(list)[list[n].id] = list[n]
           /\ Written(list) = [i \in DOMAIN Written(list) |-> Written(list)[i]]
<1>1. DOMAIN list = 1..Len(list) /\ Len(list) \in Nat
  BY DEF Good
<1>2. Range(Ids(list)) = {list[n].id : n \in 1..Len(list)}
  BY <1>1 DEF Range, Ids
<1>3. ASSUME NEW n \in 1..Len(list)
      PROVE  Written(list)[list[n].id] = list[n]
  <2>1. list[n].id \in Range(Ids(list))
    BY <1>2
  <2> DEFINE m == CHOOSE m \in 1..Len(list) : list[m].id = list[n].id
  <2>2. m \in 1..Len(list) /\ list[m].id = list[n].id
    OBVIOUS
  <2> HIDE DEF m
  <2>3. m = n
    BY <2>2 DEF Good
  <2>4. Written(list)[list[n].id] = [list[m] EXCEPT !.position = m - 1]
    BY <1>1, <2>1 DEF Written, m
  <2>5. list[n] \in Row /\ list[n].position = n - 1
    BY DEF Good
  <2>6. [list[n] EXCEPT !.position = n - 1] = list[n]
    BY <2>5 DEF Row
  <2>. QED BY <2>3, <2>4, <2>6
<1>4. /\ DOMAIN Written(list) = Range(Ids(list))
      /\ Written(list) = [i \in DOMAIN Written(list) |-> Written(list)[i]]
  <2> DEFINE R == Range(Ids(list))
             RowOf(i) == LET n == CHOOSE n \in DOMAIN list : list[n].id = i
                         IN  [list[n] EXCEPT !.position = n - 1]
  <2>1. Written(list) = [i \in R |-> RowOf(i)]
    BY DEF Written
  <2> HIDE DEF R, RowOf
  <2>2. DOMAIN Written(list) = R
    BY <2>1
  <2>3. \A i \in R : Written(list)[i] = RowOf(i)
    BY <2>1
  <2>. QED BY <2>1, <2>2, <2>3 DEF R
<1>. QED BY <1>2, <1>3, <1>4

\* Two drafts with the same rows under the same ids are the same.
LEMMA WrittenAs ==
    ASSUME NEW list, Good(list), NEW d,
           d = [i \in DOMAIN d |-> d[i]],
           \A i : i \in DOMAIN d <=> \E n \in 1..Len(list) : list[n].id = i,
           \A n \in 1..Len(list) : d[list[n].id] = list[n]
    PROVE  d = Written(list)
<1> DEFINE w == Written(list)
<1>0. /\ DOMAIN w = {list[n].id : n \in 1..Len(list)}
      /\ \A n \in 1..Len(list) : w[list[n].id] = list[n]
      /\ w = [i \in DOMAIN w |-> w[i]]
  BY WrittenIs
<1> HIDE DEF w
<1>1. DOMAIN d = DOMAIN w
  BY <1>0
<1>2. ASSUME NEW i \in DOMAIN d
      PROVE  d[i] = w[i]
  <2>1. PICK n \in 1..Len(list) : list[n].id = i
    OBVIOUS
  <2>. QED BY <2>1, <1>0
<1>3. d = w
  BY <1>0, <1>1, <1>2
<1>. QED BY <1>3 DEF w

\* The draft that is written from a list, listed.
RowsOf(d) == {d[i] : i \in DOMAIN d}

LEMMA RowsAre ==
    ASSUME NEW list, Good(list), NEW d, d = Written(list)
    PROVE  /\ RowsOf(d) = {list[n] : n \in 1..Len(list)}
           /\ ByPosition(RowsOf(d)) = list
<1>0. /\ DOMAIN d = {list[n].id : n \in 1..Len(list)}
      /\ \A n \in 1..Len(list) : d[list[n].id] = list[n]
  BY WrittenIs
<1>1. RowsOf(d) = {list[n] : n \in 1..Len(list)}
  <2>1. ASSUME NEW i \in DOMAIN d PROVE \E n \in 1..Len(list) : d[i] = list[n]
    BY <1>0
  <2>2. ASSUME NEW n \in 1..Len(list) PROVE \E i \in DOMAIN d : d[i] = list[n]
    BY <1>0
  <2>. QED BY <2>1, <2>2 DEF RowsOf
<1>2. /\ Len(list) \in Nat
      /\ list \in [1..Len(list) -> RowsOf(d)]
      /\ \A n \in 1..Len(list) : list[n] \in Row /\ list[n].position = n - 1
  BY <1>1 DEF Good
<1>3. \A r \in RowsOf(d) : r.position \in Nat
  BY <1>1, <1>2 DEF Row
<1>4. \A i, j \in 1..Len(list) : i < j => list[i].position < list[j].position
  BY <1>2
<1>5. \A r \in RowsOf(d) : \E i \in 1..Len(list) : list[i] = r
  BY <1>1
<1>6. ByPosition(RowsOf(d)) = list
  BY <1>2, <1>3, <1>4, <1>5, ByPositionIs
<1>. QED BY <1>1, <1>6

\* A rule in another place.
LEMMA Repositioned ==
    ASSUME NEW r \in Row, NEW p \in Nat
    PROVE  /\ [r EXCEPT !.position = p] \in Row
           /\ [r EXCEPT !.position = p].id = r.id
           /\ [r EXCEPT !.position = p].sort = r.sort
           /\ [r EXCEPT !.position = p].look = r.look
           /\ [r EXCEPT !.position = p].position = p
<1>1. r = [id |-> r.id, sort |-> r.sort, look |-> r.look, position |-> r.position]
  BY DEF Row
<1>2. /\ r.id \in Rules /\ r.sort \in 0..Rest /\ r.look \in Looks
  BY DEF Row
<1>3. [r EXCEPT !.position = p] =
          [id |-> r.id, sort |-> r.sort, look |-> r.look, position |-> p]
  BY <1>1
<1>. QED BY <1>2, <1>3 DEF Row

-----------------------------------------------------------------------------
(* Routes: the draft stays good *)

\* The kind of rule that belongs to a place.
SortAt(n, k) == IF n <= NumLocals THEN n ELSE IF n = k THEN Rest ELSE User

LEMMA InOrderIs ==
    ASSUME NEW list \in Seq(Row)
    PROVE  InOrder(list) <=> /\ Len(list) > NumLocals
                             /\ \A n \in 1..Len(list) : list[n].sort = SortAt(n, Len(list))
BY DEF InOrder, SortAt

\* What is known of a good draft.
LEMMA GoodDraft ==
    ASSUME NEW list \in Seq(Row), Good(list), draft = Written(list)
    PROVE  /\ Len(list) \in Nat /\ Len(list) > NumLocals
           /\ \A n \in 1..Len(list) : /\ list[n] \in Row
                                      /\ list[n].sort = SortAt(n, Len(list))
                                      /\ list[n].position = n - 1
                                      /\ draft[list[n].id] = list[n]
           /\ \A m, n \in 1..Len(list) : list[m].id = list[n].id => m = n
           /\ \A i : i \in DOMAIN draft <=> \E n \in 1..Len(list) : list[n].id = i
           /\ \A r : r \in Rows <=> \E n \in 1..Len(list) : list[n] = r
           /\ Ordered = list
<1>1. /\ Len(list) \in Nat
      /\ \A n \in 1..Len(list) : list[n] \in Row
      /\ \A n \in 1..Len(list) : list[n].position = n - 1
      /\ \A m, n \in 1..Len(list) : list[m].id = list[n].id => m = n
  BY DEF Good
<1>2. Len(list) > NumLocals /\ \A n \in 1..Len(list) : list[n].sort = SortAt(n, Len(list))
  BY InOrderIs DEF Good
<1>3. /\ DOMAIN draft = {list[n].id : n \in 1..Len(list)}
      /\ \A n \in 1..Len(list) : draft[list[n].id] = list[n]
  BY WrittenIs
<1>4. Rows = {list[n] : n \in 1..Len(list)} /\ Ordered = list
  <2>1. RowsOf(draft) = {list[n] : n \in 1..Len(list)} /\ ByPosition(RowsOf(draft)) = list
    BY RowsAre
  <2>. QED BY <2>1 DEF RowsOf, Rows, Ordered
<1>5. \A i : i \in DOMAIN draft <=> \E n \in 1..Len(list) : list[n].id = i
  BY <1>3
<1>6. \A r : r \in Rows <=> \E n \in 1..Len(list) : list[n] = r
  BY <1>4
<1>. QED BY <1>1, <1>2, <1>3, <1>4, <1>5, <1>6

LEMMA LocalsAre ==
    ASSUME NEW list \in Seq(Row), Good(list), draft = Written(list)
    PROVE  /\ ByPosition({rule \in Rows : IsLocal(rule)}) = [n \in 1..NumLocals |-> list[n]]
           /\ ByPosition({rule \in Rows : ~IsLocal(rule)}) =
                  [n \in 1..(Len(list) - NumLocals) |-> list[n + NumLocals]]
<1> DEFINE k == Len(list)
<1>1. /\ k \in Nat /\ k > NumLocals
      /\ \A n \in 1..k : list[n].sort = SortAt(n, k) /\ list[n].position = n - 1
      /\ \A r : r \in Rows <=> \E n \in 1..k : list[n] = r
  BY GoodDraft
<1>2. NumLocals \in Nat /\ Rest \notin 1..NumLocals /\ User \notin 1..NumLocals
  BY RoutesAssumption DEF Rest, User
<1>3. \A n \in 1..k : IsLocal(list[n]) <=> n <= NumLocals
  BY <1>1, <1>2 DEF IsLocal, SortAt
<1> HIDE DEF k
<1>4. ASSUME NEW rows, rows \subseteq Rows,
             NEW l \in Nat, NEW it \in [1..l -> rows], NEW d \in Nat,
             \A n \in 1..l : n + d \in 1..k /\ it[n] = list[n + d],
             \A n \in 1..k : list[n] \in rows => n - d \in 1..l
      PROVE  ByPosition(rows) = it
  <2>1. ASSUME NEW r \in rows PROVE r.position \in Nat
    <3>1. PICK n \in 1..k : list[n] = r
      BY <1>1, <1>4
    <3>2. r.position = n - 1
      BY <1>1, <3>1
    <3>. QED BY <3>2
  <2>0. ASSUME NEW n \in 1..l PROVE it[n].position = (n + d) - 1
    <3>1. n + d \in 1..k /\ it[n] = list[n + d]
      BY <1>4
    <3>. QED BY <1>1, <3>1
  <2>2. \A i, j \in 1..l : i < j => it[i].position < it[j].position
    BY <2>0
  <2>3. ASSUME NEW r \in rows PROVE \E i \in 1..l : it[i] = r
    <3>1. PICK n \in 1..k : list[n] = r
      BY <1>1, <1>4
    <3>2. n - d \in 1..l
      BY <1>4, <3>1
    <3>3. it[n - d] = list[(n - d) + d] /\ (n - d) + d = n
      BY <1>4, <3>2
    <3>. QED BY <3>1, <3>2, <3>3
  <2>. QED BY <2>1, <2>2, <2>3, ByPositionIs
<1>5. ByPosition({rule \in Rows : IsLocal(rule)}) = [n \in 1..NumLocals |-> list[n]]
  <2> DEFINE rows == {rule \in Rows : IsLocal(rule)}
             it == [n \in 1..NumLocals |-> list[n]]
  <2>1. rows \subseteq Rows /\ it \in [1..NumLocals -> rows]
    BY <1>1, <1>2, <1>3
  <2>2. \A n \in 1..NumLocals : n + 0 \in 1..k /\ it[n] = list[n + 0]
    BY <1>1, <1>2
  <2>3. \A n \in 1..k : list[n] \in rows => n - 0 \in 1..NumLocals
    BY <1>1, <1>2, <1>3
  <2> HIDE DEF rows, it
  <2>4. ByPosition(rows) = it
    BY <1>2, <1>4, <2>1, <2>2, <2>3
  <2>. QED BY <2>4 DEF rows, it
<1>6. ByPosition({rule \in Rows : ~IsLocal(rule)}) =
          [n \in 1..(k - NumLocals) |-> list[n + NumLocals]]
  <2> DEFINE rows == {rule \in Rows : ~IsLocal(rule)}
             l == k - NumLocals
             it == [n \in 1..l |-> list[n + NumLocals]]
  <2>1. rows \subseteq Rows /\ l \in Nat /\ it \in [1..l -> rows]
    BY <1>1, <1>2, <1>3
  <2>2. \A n \in 1..l : n + NumLocals \in 1..k /\ it[n] = list[n + NumLocals]
    BY <1>1, <1>2
  <2>3. \A n \in 1..k : list[n] \in rows => n - NumLocals \in 1..l
    BY <1>1, <1>2, <1>3
  <2> HIDE DEF rows, l, it
  <2>4. ByPosition(rows) = it
    BY <1>2, <1>4, <2>1, <2>2, <2>3
  <2>. QED BY <2>4 DEF rows, l, it
<1>. QED BY <1>5, <1>6 DEF k

\* A draft that is renumbered along a list of ids, with the rule each place is for.
LEMMA RenumbersWell ==
    ASSUME NEW k \in Nat, k > NumLocals, NEW ids \in [1..k -> Rules],
           \A m, n \in 1..k : ids[m] = ids[n] => m = n,
           NEW rules, \A i : i \in DOMAIN rules <=> \E n \in 1..k : ids[n] = i,
           \A i \in DOMAIN rules : rules[i] \in Row /\ rules[i].id = i,
           \A n \in 1..k : rules[ids[n]].sort = SortAt(n, k),
           draft' = Renumbered(rules, ids)
    PROVE  DraftIsGood'
<1> DEFINE list == [n \in 1..k |-> [rules[ids[n]] EXCEPT !.position = n - 1]]
<1>1. ASSUME NEW n \in 1..k
      PROVE  /\ list[n] \in Row /\ list[n].sort = SortAt(n, k)
             /\ list[n].id = ids[n] /\ list[n].position = n - 1
  <2> DEFINE r == rules[ids[n]]
             p == n - 1
  <2>1. ids[n] \in DOMAIN rules /\ p \in Nat
    OBVIOUS
  <2>2. r \in Row /\ r.sort = SortAt(n, k) /\ r.id = ids[n]
    BY <2>1
  <2> HIDE DEF r, p
  <2>3. /\ [r EXCEPT !.position = p] \in Row /\ [r EXCEPT !.position = p].sort = SortAt(n, k)
        /\ [r EXCEPT !.position = p].id = ids[n] /\ [r EXCEPT !.position = p].position = p
    BY <2>1, <2>2, Repositioned
  <2>4. list[n] = [r EXCEPT !.position = p] /\ p = n - 1
    BY DEF r, p
  <2> HIDE DEF list
  <2>. QED BY <2>3, <2>4
<1>2. list \in [1..k -> Row]
  <2>1. \A n \in 1..k : list[n] \in Row
    BY <1>1
  <2>. QED BY <2>1
<1>3. list = [n \in 1..k |-> [rules[ids[n]] EXCEPT !.position = n - 1]]
  OBVIOUS
<1> HIDE DEF list
<1>4. list \in Seq(Row) /\ Len(list) = k
  BY <1>2, IsList
<1>5. InOrder(list)
  BY <1>1, <1>4, InOrderIs
<1>6. \A n \in 1..k : list[n].id = ids[n] /\ list[n].position = n - 1
  BY <1>1
<1>7. \A n \in 1..k : list[n] = [rules[ids[n]] EXCEPT !.position = n - 1]
  BY <1>3
<1>8. Good(list)
  <2>1. ASSUME NEW m \in 1..k, NEW n \in 1..k, list[m].id = list[n].id PROVE m = n
    <3>1. ids[m] = ids[n]
      BY <1>6, <2>1
    <3>. QED BY <3>1
  <2>. QED BY <1>4, <1>5, <1>6, <2>1 DEF Good
<1> DEFINE d == Renumbered(rules, ids)
           At(i) == IF i \in Range(ids) THEN (CHOOSE n \in DOMAIN ids :
                                                 /\ ids[n] = i
                                                 /\ \A m \in DOMAIN ids : ids[m] = i => m <= n) - 1
                    ELSE rules[i].position + 10000
<1>9. d = [i \in DOMAIN rules |-> [rules[i] EXCEPT !.position = At(i)]]
  BY DEF Renumbered
<1>10. ASSUME NEW n \in 1..k
      PROVE  At(ids[n]) = n - 1
  <2>1. ids[n] \in Range(ids) /\ DOMAIN ids = 1..k
    BY DEF Range
  <2> DEFINE Latest(m) == ids[m] = ids[n] /\ \A l \in 1..k : ids[l] = ids[n] => l <= m
  <2>2. Latest(n) /\ \A m \in 1..k : Latest(m) => m = n
    OBVIOUS
  <2>3. (CHOOSE m \in 1..k : Latest(m)) = n
    <3> HIDE DEF Latest
    <3>. QED BY <2>2
  <2>. QED BY <2>1, <2>3
<1> HIDE DEF At
<1>11. DOMAIN d = DOMAIN rules /\ d = [i \in DOMAIN d |-> d[i]]
  BY <1>9
<1> HIDE DEF d
<1>12. ASSUME NEW n \in 1..k
      PROVE  d[list[n].id] = list[n]
  <2>1. ids[n] \in DOMAIN rules
    OBVIOUS
  <2>2. d[ids[n]] = [rules[ids[n]] EXCEPT !.position = n - 1]
    BY <1>9, <1>10, <2>1
  <2>. QED BY <1>6, <1>7, <2>2
<1>13. \A i : i \in DOMAIN d <=> \E n \in 1..Len(list) : list[n].id = i
  <2>1. ASSUME NEW i
        PROVE  (\E n \in 1..Len(list) : list[n].id = i) <=> \E n \in 1..k : ids[n] = i
    <3>1. 1..Len(list) = 1..k /\ \A n \in 1..k : list[n].id = ids[n]
      BY <1>4, <1>6
    <3> HIDE DEF d
    <3>. QED BY ONLY <3>1
  <2>2. \A i : i \in DOMAIN d <=> \E n \in 1..k : ids[n] = i
    BY <1>11
  <2>. QED BY <2>1, <2>2
<1>14. \A n \in 1..Len(list) : d[list[n].id] = list[n]
  BY <1>4, <1>12
<1>15. d = Written(list)
  BY ONLY <1>8, <1>11, <1>13, <1>14, WrittenAs
<1>. QED BY <1>4, <1>8, <1>15 DEF DraftIsGood, d

\* A list, an element and a list joined.
LEMMA Joined ==
    ASSUME NEW S, NEW x \in S, NEW p \in Nat, NEW q \in Nat,
           NEW a \in [1..p -> S], NEW b \in [1..q -> S]
    PROVE  /\ a \o <<x>> \o b \in [1..(p + 1 + q) -> S]
           /\ \A n \in 1..(p + 1 + q) :
                  (a \o <<x>> \o b)[n] =
                      IF n <= p THEN a[n] ELSE IF n = p + 1 THEN x ELSE b[n - (p + 1)]
<1>1. a \in Seq(S) /\ Len(a) = p /\ b \in Seq(S) /\ Len(b) = q
  OBVIOUS
<1> DEFINE c == a \o <<x>>
<1>2. c \in Seq(S) /\ Len(c) = p + 1
      /\ \A n \in 1..(p + 1) : c[n] = IF n <= p THEN a[n] ELSE x
  BY <1>1
<1> HIDE DEF c
<1>3. c \o b \in Seq(S) /\ Len(c \o b) = p + 1 + q
      /\ \A n \in 1..(p + 1 + q) : (c \o b)[n] = IF n <= p + 1 THEN c[n] ELSE b[n - (p + 1)]
  <2>1. /\ c \o b \in Seq(S)
        /\ Len(c \o b) = Len(c) + Len(b)
        /\ \A n \in 1..(Len(c) + Len(b)) :
               (c \o b)[n] = IF n <= Len(c) THEN c[n] ELSE b[n - Len(c)]
    BY <1>1, <1>2, ConcatProperties
  <2>2. Len(c) + Len(b) = p + 1 + q
    BY <1>1, <1>2
  <2>. QED BY <1>2, <2>1, <2>2
<1>4. c \o b \in [1..(p + 1 + q) -> S]
  BY <1>3, LenProperties
<1>5. ASSUME NEW n \in 1..(p + 1 + q)
      PROVE  (c \o b)[n] = IF n <= p THEN a[n] ELSE IF n = p + 1 THEN x ELSE b[n - (p + 1)]
  BY <1>2, <1>3
<1>. QED BY <1>4, <1>5 DEF c

LEMMA AddStep ==
    ASSUME DraftIsGood, NEW i \in Rules, NEW look \in Looks, Add(i, look)
    PROVE  DraftIsGood'
<1>1. PICK list \in Seq(Row) : Good(list) /\ draft = Written(list)
  BY DEF DraftIsGood
<1> DEFINE k == Len(list)
<1>2. /\ k \in Nat /\ k > NumLocals
      /\ \A n \in 1..k : /\ list[n] \in Row
                         /\ list[n].sort = SortAt(n, k)
                         /\ draft[list[n].id] = list[n]
      /\ \A m, n \in 1..k : list[m].id = list[n].id => m = n
      /\ \A j : j \in DOMAIN draft <=> \E n \in 1..k : list[n].id = j
  BY <1>1, GoodDraft
<1> DEFINE locals == ByPosition({rule \in Rows : IsLocal(rule)})
           others == ByPosition({rule \in Rows : ~IsLocal(rule)})
           new == [id |-> i, sort |-> User, look |-> look, position |-> Len(locals)]
           with == [j \in DOMAIN draft \cup {i} |-> IF j = i THEN new ELSE draft[j]]
           ids == [n \in 1..(k + 1) |-> IF n <= NumLocals THEN list[n].id
                                        ELSE IF n = NumLocals + 1 THEN i ELSE list[n - 1].id]
<1>3. locals = [n \in 1..NumLocals |-> list[n]]
      /\ others = [n \in 1..(k - NumLocals) |-> list[n + NumLocals]]
  BY <1>1, LocalsAre
<1>4. i \notin DOMAIN draft /\ draft' = Renumbered(with, Ids(locals) \o <<i>> \o Ids(others))
  BY DEF Add
<1> HIDE DEF k, locals, others
<1>5. NumLocals \in Nat /\ k \in Nat /\ k > NumLocals
  BY <1>2, RoutesAssumption
<1>6. ids \in [1..(k + 1) -> Rules]
  <2>1. \A n \in 1..k : list[n].id \in Rules
    BY <1>2 DEF Row
  <2>. QED BY <1>2, <1>5, <2>1
<1>7. Ids(locals) \o <<i>> \o Ids(others) = ids
  <2> DEFINE l == k - NumLocals
             a == [n \in 1..NumLocals |-> list[n].id]
             b == [n \in 1..l |-> list[n + NumLocals].id]
  <2>1. Ids(locals) = a /\ Ids(others) = b
    BY <1>3 DEF Ids
  <2>2. \A n \in 1..k : list[n].id \in Rules
    BY <1>2 DEF Row
  <2>3. l \in Nat /\ NumLocals + 1 + l = k + 1 /\ a \in [1..NumLocals -> Rules] /\ b \in [1..l -> Rules]
    BY <1>2, <1>5, <2>2
  <2>4. /\ \A n \in 1..NumLocals : a[n] = list[n].id
        /\ \A n \in 1..l : b[n] = list[n + NumLocals].id
    OBVIOUS
  <2>5. \A n \in 1..(k + 1) : n > NumLocals + 1 =>
            /\ n - (NumLocals + 1) \in 1..l
            /\ (n - (NumLocals + 1)) + NumLocals = n - 1
    BY <1>5
  <2>6. /\ ids = [n \in 1..(k + 1) |-> ids[n]]
        /\ \A n \in 1..(k + 1) : ids[n] = IF n <= NumLocals THEN list[n].id
                                         ELSE IF n = NumLocals + 1 THEN i ELSE list[n - 1].id
    OBVIOUS
  <2> DEFINE abc == a \o <<i>> \o b
  <2> HIDE DEF a, b, l, ids
  <2>7. /\ abc \in [1..(NumLocals + 1 + l) -> Rules]
        /\ \A n \in 1..(NumLocals + 1 + l) :
              abc[n] = IF n <= NumLocals THEN a[n]
                       ELSE IF n = NumLocals + 1 THEN i ELSE b[n - (NumLocals + 1)]
    <3>1. /\ NumLocals \in Nat /\ l \in Nat /\ i \in Rules
          /\ a \in [1..NumLocals -> Rules] /\ b \in [1..l -> Rules]
      BY <1>5, <2>3
    <3>2. abc \in [1..(NumLocals + 1 + l) -> Rules]
      BY ONLY <3>1, Joined, Zenon DEF abc
    <3>3. \A n \in 1..(NumLocals + 1 + l) :
              abc[n] = IF n <= NumLocals THEN a[n]
                       ELSE IF n = NumLocals + 1 THEN i ELSE b[n - (NumLocals + 1)]
      BY ONLY <3>1, Joined, SMT DEF abc
    <3>. QED BY <3>2, <3>3
  <2> HIDE DEF abc
  <2>8. ASSUME NEW n \in 1..(k + 1)
        PROVE  abc[n] = ids[n]
    <3>1. abc[n] = IF n <= NumLocals THEN a[n]
                   ELSE IF n = NumLocals + 1 THEN i ELSE b[n - (NumLocals + 1)]
      BY <2>3, <2>7
    <3>2. CASE n <= NumLocals
      BY <1>5, <2>4, <2>6, <3>1, <3>2
    <3>3. CASE n = NumLocals + 1
      BY <1>5, <2>6, <3>1, <3>3
    <3>4. CASE n > NumLocals + 1
      BY <1>5, <2>4, <2>5, <2>6, <3>1, <3>4
    <3>. QED BY <1>5, <3>2, <3>3, <3>4
  <2>9. abc = [n \in 1..(k + 1) |-> abc[n]]
    BY <2>3, <2>7
  <2>10. abc = ids
    BY <2>6, <2>8, <2>9
  <2>. QED BY <2>1, <2>10 DEF abc
<1>8. \A m, n \in 1..(k + 1) : ids[m] = ids[n] => m = n
  <2>1. \A n \in 1..k : list[n].id # i
    BY <1>2, <1>4
  <2>. QED BY <1>2, <1>5, <2>1
<1>9. \A j : j \in DOMAIN with <=> \E n \in 1..(k + 1) : ids[n] = j
  <2>1. ASSUME NEW j \in DOMAIN draft PROVE \E n \in 1..(k + 1) : ids[n] = j
    <3>1. PICK n \in 1..k : list[n].id = j
      BY <1>2
    <3>2. CASE n <= NumLocals
      <4>1. n \in 1..(k + 1) /\ ids[n] = j
        BY <1>2, <1>5, <3>1, <3>2
      <4>. QED BY <4>1
    <3>3. CASE n > NumLocals
      <4>1. n + 1 \in 1..(k + 1) /\ ids[n + 1] = j
        BY <1>2, <1>5, <3>1, <3>3
      <4>. QED BY <4>1
    <3>. QED BY <1>5, <3>2, <3>3
  <2>2. NumLocals + 1 \in 1..(k + 1) /\ ids[NumLocals + 1] = i
    BY <1>2, <1>5
  <2>3. ASSUME NEW n \in 1..(k + 1) PROVE ids[n] \in DOMAIN with
    BY <1>2, <1>5
  <2>4. DOMAIN with = DOMAIN draft \cup {i}
    OBVIOUS
  <2> HIDE DEF ids, with
  <2>. QED BY <2>1, <2>2, <2>3, <2>4
<1>10. new \in Row /\ new.id = i /\ new.sort = User
  <2>1. Len(locals) \in Nat
    BY <1>3, <1>5
  <2>. QED BY <2>1, SortsAre DEF Row
<1>11. \A j \in DOMAIN with : with[j] \in Row /\ with[j].id = j
  <2> HIDE DEF new
  <2>. QED BY <1>2, <1>10
<1>12. ASSUME NEW n \in 1..(k + 1) PROVE with[ids[n]].sort = SortAt(n, k + 1)
  <2> HIDE DEF new
  <2>1. CASE n <= NumLocals
    <3>1. n \in 1..k /\ ids[n] = list[n].id /\ ids[n] # i
      BY <1>2, <1>4, <1>5, <2>1
    <3>2. with[ids[n]] = list[n]
      BY <1>2, <3>1
    <3>. QED BY <1>2, <2>1, <3>1, <3>2 DEF SortAt
  <2>2. CASE n = NumLocals + 1
    <3>1. with[ids[n]] = new
      BY <1>5, <2>2
    <3>. QED BY <1>2, <1>5, <1>10, <2>2, <3>1 DEF SortAt
  <2>3. CASE n > NumLocals + 1
    <3>1. n - 1 \in 1..k /\ ids[n] = list[n - 1].id /\ ids[n] # i
      BY <1>2, <1>4, <1>5, <2>3
    <3>2. with[ids[n]] = list[n - 1]
      BY <1>2, <3>1
    <3>. QED BY <1>2, <1>5, <2>3, <3>1, <3>2 DEF SortAt
  <2>. QED BY <1>5, <2>1, <2>2, <2>3
<1>13. k + 1 \in Nat /\ k + 1 > NumLocals
  BY <1>2, <1>5
<1>14. draft' = Renumbered(with, ids)
  BY <1>4, <1>7
<1> HIDE DEF ids, with
<1>. QED BY <1>6, <1>8, <1>9, <1>11, <1>12, <1>13, <1>14, RenumbersWell

\* A change of what the rules say.
LEMMA UpdateStep ==
    ASSUME DraftIsGood, NEW i \in Rules, NEW look \in Looks, Update(i, look)
    PROVE  DraftIsGood'
<1>1. PICK list \in Seq(Row) : Good(list) /\ draft = Written(list)
  BY DEF DraftIsGood
<1> DEFINE k == Len(list)
<1>2. /\ k \in Nat /\ k > NumLocals
      /\ \A n \in 1..k : /\ list[n] \in Row
                         /\ list[n].sort = SortAt(n, k)
                         /\ list[n].position = n - 1
                         /\ draft[list[n].id] = list[n]
      /\ \A m, n \in 1..k : list[m].id = list[n].id => m = n
      /\ \A j : j \in DOMAIN draft <=> \E n \in 1..k : list[n].id = j
  BY <1>1, GoodDraft
<1> HIDE DEF k
<1> DEFINE new == [n \in 1..k |-> draft'[list[n].id]]
<1>3. ASSUME NEW n \in 1..k
      PROVE  /\ new[n] \in Row
             /\ new[n].id = list[n].id
             /\ new[n].sort = list[n].sort
             /\ new[n].position = list[n].position
  <2> DEFINE r == list[n]
  <2>1. r.id \in DOMAIN draft /\ draft[r.id] = r /\ r \in Row
    BY <1>2
  <2> HIDE DEF r
  <2>2. draft'[r.id] \in {r, [r EXCEPT !.look = look]}
    BY <2>1 DEF Update
  <2>3. [r EXCEPT !.look = look] =
            [id |-> r.id, sort |-> r.sort, look |-> look, position |-> r.position]
    BY <2>1 DEF Row
  <2>4. \A s \in {r, [r EXCEPT !.look = look]} :
            s \in Row /\ s.id = r.id /\ s.sort = r.sort /\ s.position = r.position
    BY <2>1, <2>3 DEF Row
  <2>5. new[n] = draft'[r.id]
    BY DEF r
  <2> HIDE DEF new
  <2>. QED BY <2>2, <2>4, <2>5 DEF r
<1>4. new \in Seq(Row) /\ Len(new) = k
  <2>1. \A n \in 1..k : new[n] \in Row
    BY <1>3
  <2>2. new \in [1..k -> Row]
    BY <2>1
  <2>. QED BY <1>2, <2>2, IsList
<1>5. \A n \in 1..k : new[n] = draft'[list[n].id]
  OBVIOUS
<1> HIDE DEF new
<1>6. Good(new)
  <2>0. \A n \in 1..k : new[n].sort = SortAt(n, k)
    BY <1>2, <1>3
  <2>1. InOrder(new)
    BY <1>2, <1>4, <2>0, InOrderIs
  <2>2. \A n \in 1..k : new[n].position = n - 1
    BY <1>2, <1>3
  <2>3. \A m, n \in 1..k : new[m].id = new[n].id => m = n
    BY <1>2, <1>3
  <2>. QED BY <1>4, <2>1, <2>2, <2>3 DEF Good
<1>7. draft' = [j \in DOMAIN draft |-> draft'[j]]
  BY DEF Update
<1> DEFINE d == draft'
<1>8. d = [j \in DOMAIN draft |-> d[j]]
  BY <1>7
<1> HIDE DEF d
<1>9. d = [j \in DOMAIN d |-> d[j]] /\ DOMAIN d = DOMAIN draft
  BY <1>8
<1>10. \A j : j \in DOMAIN d <=> \E n \in 1..Len(new) : new[n].id = j
  <2>1. ASSUME NEW j
        PROVE  j \in DOMAIN d <=> \E n \in 1..k : new[n].id = j
    <3>1. j \in DOMAIN draft <=> \E n \in 1..k : list[n].id = j
      BY <1>2
    <3>2. \A n \in 1..k : new[n].id = list[n].id
      BY <1>3
    <3>. QED BY <1>9, <3>1, <3>2
  <2>. QED BY <1>4, <2>1
<1>11. \A n \in 1..Len(new) : d[new[n].id] = new[n]
  BY <1>3, <1>4, <1>5 DEF d
<1>12. d = Written(new)
  BY <1>6, <1>9, <1>10, <1>11, WrittenAs
<1>. QED BY <1>4, <1>6, <1>12 DEF DraftIsGood, d

\* The rules that are left are listed without a gap.
LEMMA RemoveStep ==
    ASSUME DraftIsGood, NEW i \in Rules, RemoveRule(i)
    PROVE  DraftIsGood'
<1>1. PICK list \in Seq(Row) : Good(list) /\ draft = Written(list)
  BY DEF DraftIsGood
<1> DEFINE k == Len(list)
<1>2. /\ k \in Nat /\ k > NumLocals
      /\ \A n \in 1..k : /\ list[n] \in Row
                         /\ list[n].sort = SortAt(n, k)
                         /\ list[n].position = n - 1
                         /\ draft[list[n].id] = list[n]
      /\ \A m, n \in 1..k : list[m].id = list[n].id => m = n
      /\ \A j : j \in DOMAIN draft <=> \E n \in 1..k : list[n].id = j
      /\ \A r : r \in Rows <=> \E n \in 1..k : list[n] = r
  BY <1>1, GoodDraft
<1> HIDE DEF k
<1>3. NumLocals \in Nat /\ k \in Nat
  BY <1>2, RoutesAssumption
<1>4. PICK m \in 1..k : list[m].id = i
  BY <1>2 DEF RemoveRule
<1>5. NumLocals < m /\ m < k
  <2>1. SortAt(m, k) = User
    BY <1>2, <1>4 DEF RemoveRule, IsLocked
  <2>. QED BY <1>3, <2>1, SortsAre DEF SortAt
<1> DEFINE From(n) == IF n < m THEN n ELSE n + 1
           rows == {rule \in Rows : rule.id # i}
           left == [n \in 1..(k - 1) |-> list[From(n)]]
           ids == [n \in 1..(k - 1) |-> list[From(n)].id]
           rules == [j \in DOMAIN draft \ {i} |-> draft[j]]
<1>6. /\ k - 1 \in Nat /\ k - 1 > NumLocals
      /\ \A n \in 1..(k - 1) : From(n) \in 1..k /\ From(n) # m
      /\ \A n, l \in 1..(k - 1) : From(n) = From(l) => n = l
      /\ \A n, l \in 1..(k - 1) : n < l => From(n) < From(l)
      /\ \A n \in 1..(k - 1) : SortAt(From(n), k) = SortAt(n, k - 1)
  BY <1>3, <1>5 DEF SortAt
<1>7. \A n \in 1..k : n # m => \E l \in 1..(k - 1) : From(l) = n
  <2> SUFFICES ASSUME NEW n \in 1..k, n # m PROVE \E l \in 1..(k - 1) : From(l) = n
    OBVIOUS
  <2>1. CASE n < m
    <3>1. n \in 1..(k - 1) /\ From(n) = n
      BY <1>3, <1>5, <2>1
    <3>. QED BY <3>1
  <2>2. CASE n > m
    <3>1. n - 1 \in 1..(k - 1) /\ From(n - 1) = n
      BY <1>3, <1>5, <2>2
    <3> HIDE DEF From
    <3>. QED BY <3>1
  <2>. QED BY <1>3, <2>1, <2>2
<1> HIDE DEF From
<1>8. ByPosition(rows) = left
  <2>1. ASSUME NEW r \in rows PROVE \E n \in 1..(k - 1) : left[n] = r
    <3>1. PICK n \in 1..k : list[n] = r
      BY <1>2
    <3>2. n # m
      BY <1>4, <3>1
    <3>3. PICK l \in 1..(k - 1) : From(l) = n
      BY <1>7, <3>2
    <3>. QED BY <3>1, <3>3
  <2>2. ASSUME NEW n \in 1..(k - 1) PROVE left[n] \in rows /\ left[n].position = From(n) - 1
    <3>1. From(n) \in 1..k /\ From(n) # m
      BY <1>6
    <3>2. list[From(n)] \in Rows /\ list[From(n)].id # i /\ list[From(n)].position = From(n) - 1
      BY <1>2, <1>4, <3>1
    <3>. QED BY <3>2
  <2>3. left \in [1..(k - 1) -> rows]
    BY <2>2
  <2>4. ASSUME NEW r \in rows PROVE r.position \in Nat
    <3>1. PICK n \in 1..(k - 1) : left[n] = r
      BY <2>1
    <3>2. r.position = From(n) - 1 /\ From(n) \in 1..k
      BY <1>6, <2>2, <3>1
    <3>. QED BY <3>2
  <2> HIDE DEF rows, left
  <2>5. \A n, l \in 1..(k - 1) : n < l => left[n].position < left[l].position
    <3> SUFFICES ASSUME NEW n \in 1..(k - 1), NEW l \in 1..(k - 1), n < l
                 PROVE  left[n].position < left[l].position
      OBVIOUS
    <3>1. From(n) < From(l) /\ From(n) \in 1..k /\ From(l) \in 1..k
      BY <1>6
    <3>. QED BY <2>2, <3>1
  <2>6. k - 1 \in Nat
    BY <1>6
  <2>. QED BY <2>1, <2>3, <2>4, <2>5, <2>6, ByPositionIs
<1>9. draft' = Renumbered(rules, ids)
  <2>1. Ids(left) = ids
    BY DEF Ids
  <2>. QED BY <1>8, <2>1 DEF RemoveRule
<1>10. ids \in [1..(k - 1) -> Rules]
  <2>1. \A n \in 1..(k - 1) : list[From(n)].id \in Rules
    BY <1>2, <1>6 DEF Row
  <2>. QED BY <2>1
<1>11. ASSUME NEW n \in 1..(k - 1), NEW l \in 1..(k - 1), ids[n] = ids[l]
       PROVE  n = l
  <2>1. From(n) \in 1..k /\ From(l) \in 1..k /\ list[From(n)].id = list[From(l)].id
    BY <1>6, <1>11
  <2>2. From(n) = From(l)
    BY <1>2, <2>1
  <2>. QED BY <1>6, <2>2
<1>12. \A j : j \in DOMAIN rules <=> \E n \in 1..(k - 1) : ids[n] = j
  <2>1. ASSUME NEW j \in DOMAIN rules PROVE \E n \in 1..(k - 1) : ids[n] = j
    <3>1. PICK n \in 1..k : list[n].id = j
      BY <1>2
    <3>2. n # m
      BY <1>4, <3>1
    <3>3. PICK l \in 1..(k - 1) : From(l) = n
      BY <1>7, <3>2
    <3>. QED BY <3>1, <3>3
  <2>2. ASSUME NEW n \in 1..(k - 1) PROVE ids[n] \in DOMAIN rules
    <3>1. From(n) \in 1..k /\ From(n) # m
      BY <1>6
    <3>2. list[From(n)].id \in DOMAIN draft /\ list[From(n)].id # i
      BY <1>2, <1>4, <3>1
    <3>. QED BY <3>2
  <2> HIDE DEF ids, rules
  <2>. QED BY <2>1, <2>2
<1>13. \A j \in DOMAIN rules : rules[j] \in Row /\ rules[j].id = j
  BY <1>2
<1>14. ASSUME NEW n \in 1..(k - 1) PROVE rules[ids[n]].sort = SortAt(n, k - 1)
  <2>1. From(n) \in 1..k /\ ids[n] = list[From(n)].id /\ ids[n] \in DOMAIN rules
    BY <1>6, <1>12
  <2>2. rules[ids[n]] = list[From(n)]
    BY <1>2, <2>1
  <2>. QED BY <1>2, <1>6, <2>1, <2>2
<1> HIDE DEF ids, rules
<1>. QED BY <1>6, <1>9, <1>10, <1>11, <1>12, <1>13, <1>14, RenumbersWell

\* The rules that are not fixed change their places.
LEMMA ReorderStep ==
    ASSUME Complete, DraftIsGood, NEW ids \in [1..Cardinality(DOMAIN draft) -> DOMAIN draft], Reorder(ids)
    PROVE  DraftIsGood'
<1>1. PICK list \in Seq(Row) : Good(list) /\ draft = Written(list)
  BY DEF DraftIsGood
<1> DEFINE k == Len(list)
<1>2. /\ k \in Nat /\ k > NumLocals
      /\ \A n \in 1..k : /\ list[n] \in Row
                         /\ list[n].sort = SortAt(n, k)
                         /\ draft[list[n].id] = list[n]
      /\ \A m, n \in 1..k : list[m].id = list[n].id => m = n
      /\ \A j : j \in DOMAIN draft <=> \E n \in 1..k : list[n].id = j
  BY <1>1, GoodDraft
<1> HIDE DEF k
<1>3. NumLocals \in Nat /\ k \in Nat
  BY <1>2, RoutesAssumption
<1>4. IsFiniteSet(DOMAIN draft) /\ Cardinality(DOMAIN draft) = k
  <2> DEFINE at == [n \in 1..k |-> list[n].id]
  <2>1. at \in Bijection(1..k, DOMAIN draft)
    BY <1>2 DEF Bijection, Injection, Surjection, IsInjective
  <2>2. ExistsBijection(1..k, DOMAIN draft)
    BY <2>1 DEF ExistsBijection
  <2>3. IsFiniteSet(1..k) /\ Cardinality(1..k) = k
    BY <1>3, FS_Interval
  <2>. QED BY <2>2, <2>3, FS_Bijection
<1>5. ids \in [1..k -> DOMAIN draft] /\ Len(ids) = k
  BY <1>3, <1>4
<1>6. \A j \in DOMAIN draft : \E n \in 1..k : ids[n] = j
  BY <1>5 DEF Reorder, Reorders, Range
<1>7. \A m, n \in 1..k : ids[m] = ids[n] => m = n
  <2>1. ids \in Surjection(1..k, DOMAIN draft)
    BY <1>5, <1>6 DEF Surjection
  <2>2. IsFiniteSet(1..k) /\ Cardinality(1..k) = k
    BY <1>3, FS_Interval
  <2>3. ids \in Injection(1..k, DOMAIN draft)
    BY <1>4, <2>1, <2>2, FS_Surjection
  <2>. QED BY <1>5, <2>3 DEF Injection, IsInjective
<1>8. ASSUME NEW n \in 1..k PROVE draft[ids[n]].sort = SortAt(n, k)
  <2>1. /\ \A l \in 1..NumLocals : l \in 1..k /\ draft[ids[l]].sort = l
        /\ k \in 1..k /\ draft[ids[k]].sort = Rest
    BY <1>2, <1>3, <1>5 DEF Reorder
  <2>2. PICK m \in 1..k : list[m].id = ids[n]
    BY <1>2, <1>5
  <2>3. draft[ids[n]].sort = SortAt(m, k)
    BY <1>2, <2>2
  <2>4. CASE n <= NumLocals
    BY <1>3, <2>1, <2>4 DEF SortAt
  <2>5. CASE n = k
    BY <1>2, <1>3, <2>1, <2>5 DEF SortAt
  <2>6. CASE n > NumLocals /\ n < k
    <3>1. ASSUME m <= NumLocals PROVE FALSE
      <4>1. PICK l \in 1..k : list[l].id = ids[m]
        BY <1>2, <1>5
      <4>2. SortAt(l, k) = m
        BY <1>2, <1>3, <2>1, <3>1, <4>1
      <4>3. l = m
        BY <1>3, <3>1, <4>2 DEF SortAt, User, Rest
      <4>4. ids[m] = ids[n]
        BY <2>2, <4>1, <4>3
      <4>. QED BY <1>3, <1>7, <2>6, <3>1, <4>4
    <3>2. ASSUME m = k PROVE FALSE
      <4>1. PICK l \in 1..k : list[l].id = ids[k]
        BY <1>2, <1>5, <2>1
      <4>2. SortAt(l, k) = Rest
        BY <1>2, <2>1, <4>1
      <4>3. l = k
        BY <1>3, <4>2, SortsAre DEF SortAt
      <4>4. ids[k] = ids[n]
        BY <2>2, <3>2, <4>1, <4>3
      <4>. QED BY <1>3, <1>7, <2>1, <2>6, <4>4
    <3>. QED BY <1>3, <2>3, <2>6, <3>1, <3>2 DEF SortAt
  <2>. QED BY <1>3, <2>4, <2>5, <2>6
<1>9. ids \in [1..k -> Rules]
  <2>1. DOMAIN draft \subseteq Rules
    BY <1>2 DEF Row
  <2>. QED BY <1>5, <2>1
<1>10. \A j : j \in DOMAIN draft <=> \E n \in 1..k : ids[n] = j
  BY <1>5, <1>6
<1>11. \A j \in DOMAIN draft : draft[j] \in Row /\ draft[j].id = j
  BY <1>2
<1>12. draft' = Renumbered(draft, ids)
  BY DEF Reorder, Reorders
<1>13. k \in Nat /\ k > NumLocals
  BY <1>2
<1>. QED BY ONLY <1>7, <1>8, <1>9, <1>10, <1>11, <1>12, <1>13, RenumbersWell

-----------------------------------------------------------------------------
(* Routes: the invariant *)

\* The default rules are a good draft.
LEMMA InitRoutes == RoutesInit => RoutesInv
<1> SUFFICES ASSUME RoutesInit PROVE RoutesInv
  OBVIOUS
<1>1. Rest \in Nat /\ NumLocals \in Nat /\ Rest = NumLocals + 1
  BY RoutesAssumption DEF Rest
<1>2. First \in [1..Rest -> Rules] /\ IsInjective(First)
  <2>1. ExistsBijection(1..Cardinality(Rules), Rules) /\ Cardinality(Rules) \in Nat
    BY RoutesAssumption, FS_CardinalityType
  <2>2. PICK f \in Bijection(1..Cardinality(Rules), Rules) : TRUE
    BY <2>1 DEF ExistsBijection
  <2> DEFINE g == [n \in 1..Rest |-> f[n]]
  <2>3. 1..Rest \subseteq 1..Cardinality(Rules)
    BY <1>1, <2>1, RoutesAssumption
  <2>4. g \in [1..Rest -> Rules] /\ IsInjective(g)
    BY <2>2, <2>3 DEF Bijection, Injection, IsInjective
  <2> HIDE DEF g
  <2>. QED BY <2>4 DEF First
<1>3. PICK look \in Looks : draft = [i \in Range(First) |->
                       LET n == CHOOSE n \in 1..Rest : First[n] = i
                       IN  [id |-> i, sort |-> n, look |-> look, position |-> n - 1]]
  BY DEF RoutesInit
<1> DEFINE list == [n \in 1..Rest |->
                       [id |-> First[n], sort |-> n, look |-> look, position |-> n - 1]]
<1>4. \A n \in 1..Rest : /\ list[n] \in Row
                         /\ list[n].id = First[n]
                         /\ list[n].sort = n
                         /\ list[n].position = n - 1
  BY <1>1, <1>2 DEF Row
<1>5. list \in [1..Rest -> Row]
  <2>1. \A n \in 1..Rest : list[n] \in Row
    BY <1>4
  <2>. QED BY <2>1
<1>6. \A n \in 1..Rest : list[n] = [id |-> First[n], sort |-> n, look |-> look, position |-> n - 1]
  OBVIOUS
<1> HIDE DEF list
<1>7. list \in Seq(Row) /\ Len(list) = Rest
  BY <1>1, <1>5, IsList
<1>8. Good(list)
  <2>1. \A n \in 1..Rest : list[n].sort = SortAt(n, Rest)
    BY <1>1, <1>4 DEF SortAt
  <2>2. InOrder(list)
    BY <1>1, <1>7, <2>1, InOrderIs
  <2>3. \A m, n \in 1..Rest : list[m].id = list[n].id => m = n
    BY <1>2, <1>4 DEF IsInjective
  <2>. QED BY <1>4, <1>7, <2>2, <2>3 DEF Good
<1>9. draft = Written(list)
  <2>1. draft = [i \in DOMAIN draft |-> draft[i]] /\ DOMAIN draft = Range(First)
    BY <1>3
  <2>2. \A i : i \in DOMAIN draft <=> \E n \in 1..Len(list) : list[n].id = i
    <3>1. \A i : i \in Range(First) <=> \E n \in 1..Rest : First[n] = i
      BY <1>2 DEF Range
    <3>2. ASSUME NEW i PROVE (\E n \in 1..Rest : First[n] = i) <=> \E n \in 1..Rest : list[n].id = i
      BY <1>4
    <3>. QED BY <1>7, <2>1, <3>1, <3>2
  <2>3. ASSUME NEW n \in 1..Rest PROVE draft[list[n].id] = list[n]
    <3> DEFINE m == CHOOSE m \in 1..Rest : First[m] = First[n]
    <3>1. m \in 1..Rest /\ First[m] = First[n]
      OBVIOUS
    <3>2. First[n] \in Range(First)
      BY <1>2 DEF Range
    <3>3. draft[First[n]] = [id |-> First[n], sort |-> m, look |-> look, position |-> m - 1]
      BY <1>3, <3>2
    <3> HIDE DEF m
    <3>4. m = n
      BY <1>2, <3>1 DEF IsInjective
    <3>. QED BY <1>4, <1>6, <3>3, <3>4
  <2>. QED BY <1>7, <1>8, <2>1, <2>2, <2>3, WrittenAs
<1>10. revisions = <<>> /\ active = 0
  BY DEF RoutesInit
<1>11. DraftIsGood
  BY <1>7, <1>8, <1>9 DEF DraftIsGood
<1>. QED BY <1>10, <1>11 DEF RoutesInv

\* What is published is a good draft.
LEMMA PublishesStep ==
    ASSUME RoutesInv, NEW list \in Seq(Row), Good(list), Publishes(list)
    PROVE  /\ revisions' \in Seq(Seq(Row))
           /\ \A v \in 1..Len(revisions') : Good(revisions'[v])
           /\ active' \in 1..Len(revisions')
           /\ revisions'[active'] = list
<1> DEFINE S == Seq(Row)
<1>1. list \in S /\ revisions \in Seq(S) /\ revisions' = Append(revisions, list)
      /\ active' = Len(revisions) + 1
  BY DEF RoutesInv, Publishes
<1> HIDE DEF S
<1>2. /\ revisions' \in Seq(S)
      /\ Len(revisions') = Len(revisions) + 1 /\ Len(revisions) \in Nat
      /\ \A v \in 1..Len(revisions) : revisions'[v] = revisions[v]
      /\ revisions'[Len(revisions) + 1] = list
  BY <1>1, AppendProperties, LenProperties
<1>3. ASSUME NEW v \in 1..Len(revisions') PROVE Good(revisions'[v])
  <2>1. CASE v <= Len(revisions)
    <3>1. v \in 1..Len(revisions)
      BY <1>2, <2>1
    <3>. QED BY <1>2, <3>1 DEF RoutesInv
  <2>2. CASE v = Len(revisions) + 1
    BY <1>2, <2>2
  <2>. QED BY <1>2, <2>1, <2>2
<1>. QED BY <1>1, <1>2, <1>3 DEF S

\* A draft that a revision is written into is what was published.
LEMMA WritesWell ==
    ASSUME NEW list \in Seq(Row), Good(list), draft' = Written(list)
    PROVE  DraftIsGood' /\ Ordered' = list
<1>1. ByPosition(RowsOf(draft')) = list
  BY RowsAre
<1>. QED BY <1>1 DEF DraftIsGood, RowsOf, Ordered, Rows

\* What the three operations on revisions leave is published and clean.
LEMMA RevisionsStep ==
    ASSUME RoutesInv,
           Publish \/ Discard \/ \E v \in DOMAIN revisions : Rollback(v)
    PROVE  RoutesInv' /\ ~Dirty'
<1>0. DOMAIN revisions = 1..Len(revisions) /\ Len(revisions) \in Nat
      /\ \A v \in 1..Len(revisions) : revisions[v] \in Seq(Row) /\ Good(revisions[v])
  BY DEF RoutesInv
<1>1. CASE Publish
  <2>1. PICK list \in Seq(Row) : Good(list) /\ draft = Written(list)
    BY DEF RoutesInv, DraftIsGood
  <2>2. Ordered = list /\ draft' = Written(list)
    BY <1>1, <2>1, GoodDraft DEF Publish
  <2>3. Publishes(list)
    BY <1>1, <2>2 DEF Publish
  <2>4. DraftIsGood' /\ Ordered' = list
    BY <2>1, <2>2, WritesWell
  <2>5. /\ revisions' \in Seq(Seq(Row))
        /\ \A v \in 1..Len(revisions') : Good(revisions'[v])
        /\ active' \in 1..Len(revisions')
        /\ revisions'[active'] = list
    BY <2>1, <2>3, PublishesStep
  <2>. QED BY <2>4, <2>5 DEF RoutesInv, Dirty
<1>2. ASSUME NEW v \in DOMAIN revisions, Rollback(v) PROVE RoutesInv' /\ ~Dirty'
  <2> DEFINE list == revisions[v]
  <2>1. list \in Seq(Row) /\ Good(list)
    BY <1>0
  <2>2. Publishes(list) /\ draft' = Written(list)
    BY <1>2 DEF Rollback
  <2> HIDE DEF list
  <2>3. DraftIsGood' /\ Ordered' = list
    BY <2>1, <2>2, WritesWell
  <2>4. /\ revisions' \in Seq(Seq(Row))
        /\ \A u \in 1..Len(revisions') : Good(revisions'[u])
        /\ active' \in 1..Len(revisions')
        /\ revisions'[active'] = list
    BY <2>1, <2>2, PublishesStep
  <2>. QED BY <2>3, <2>4 DEF RoutesInv, Dirty
<1>3. CASE Discard
  <2> DEFINE list == revisions[active]
  <2>1. active \in 1..Len(revisions)
    BY <1>3 DEF RoutesInv, Discard
  <2>2. list \in Seq(Row) /\ Good(list) /\ draft' = Written(list)
    BY <1>0, <1>3, <2>1 DEF Discard
  <2>3. revisions' = revisions /\ active' = active /\ revisions'[active'] = list
    BY <1>3 DEF Discard
  <2> HIDE DEF list
  <2>4. DraftIsGood' /\ Ordered' = list
    BY <2>2, WritesWell
  <2>. QED BY <1>0, <2>1, <2>3, <2>4 DEF RoutesInv, Dirty
<1>. QED BY <1>1, <1>2, <1>3

\* The edits, which leave the revisions alone.
LEMMA EditsStep ==
    ASSUME Complete, RoutesInv,
           \/ \E i \in Rules : RemoveRule(i) \/ \E look \in Looks : Add(i, look) \/ Update(i, look)
           \/ \E ids \in [1..Cardinality(DOMAIN draft) -> DOMAIN draft] : Reorder(ids)
    PROVE  RoutesInv' /\ active' = active
<1>1. DraftIsGood
  BY DEF RoutesInv
<1>2. ASSUME NEW i \in Rules, RemoveRule(i) PROVE DraftIsGood' /\ UNCHANGED <<revisions, active>>
  <2>1. DraftIsGood'
    BY <1>1, <1>2, RemoveStep
  <2>. QED BY <1>2, <2>1 DEF RemoveRule
<1>3. ASSUME NEW i \in Rules, NEW look \in Looks, Add(i, look)
      PROVE  DraftIsGood' /\ UNCHANGED <<revisions, active>>
  <2>1. DraftIsGood'
    BY <1>1, <1>3, AddStep
  <2>. QED BY <1>3, <2>1 DEF Add
<1>4. ASSUME NEW i \in Rules, NEW look \in Looks, Update(i, look)
      PROVE  DraftIsGood' /\ UNCHANGED <<revisions, active>>
  <2>1. DraftIsGood'
    BY <1>1, <1>4, UpdateStep
  <2>. QED BY <1>4, <2>1 DEF Update
<1>5. ASSUME NEW ids \in [1..Cardinality(DOMAIN draft) -> DOMAIN draft], Reorder(ids)
      PROVE  DraftIsGood' /\ UNCHANGED <<revisions, active>>
  <2>1. DraftIsGood'
    BY <1>1, <1>5, ReorderStep
  <2>. QED BY <1>5, <2>1 DEF Reorder, Reorders
<1>6. DraftIsGood' /\ UNCHANGED <<revisions, active>>
  BY <1>2, <1>3, <1>4, <1>5
<1>. QED BY <1>6 DEF RoutesInv

LEMMA RoutesStep ==
    Complete /\ RoutesInv /\ [RoutesNext]_routesVars =>
        /\ RoutesInv'
        /\ [active' # active \/ Discard => ~Dirty']_routesVars
<1> SUFFICES ASSUME Complete, RoutesInv, [RoutesNext]_routesVars
             PROVE  RoutesInv' /\ [active' # active \/ Discard => ~Dirty']_routesVars
  OBVIOUS
<1>1. CASE UNCHANGED routesVars
  BY <1>1 DEF routesVars, RoutesInv, DraftIsGood
<1>2. CASE Publish \/ Discard \/ \E v \in DOMAIN revisions : Rollback(v)
  BY <1>2, RevisionsStep
<1>3. CASE \/ \E i \in Rules : RemoveRule(i) \/ \E look \in Looks : Add(i, look) \/ Update(i, look)
           \/ \E ids \in [1..Cardinality(DOMAIN draft) -> DOMAIN draft] : Reorder(ids)
  <2>1. RoutesInv' /\ active' = active
    BY <1>3, EditsStep
  <2>2. Discard => ~Dirty'
    BY RevisionsStep
  <2>. QED BY <2>1, <2>2
<1>. QED BY <1>1, <1>2, <1>3 DEF RoutesNext

LEMMA RoutesGood == RoutesInv => EverythingElseIsLast
<1> SUFFICES ASSUME RoutesInv PROVE EverythingElseIsLast
  OBVIOUS
<1>1. InOrder(Ordered)
  <2>1. PICK list \in Seq(Row) : Good(list) /\ draft = Written(list)
    BY DEF RoutesInv, DraftIsGood
  <2>. QED BY <2>1, GoodDraft DEF Good
<1>2. \A v \in DOMAIN revisions : InOrder(revisions[v])
  BY DEF RoutesInv, Good
<1>. QED BY <1>1, <1>2 DEF EverythingElseIsLast

\* For any number of rules and any sequence of additions, removals, changes, complete
\* reorderings, publications, roll-backs and discards, the draft and every revision keep the
\* local networks first and the rule for everything else last.
THEOREM CatchAllStaysLast ==
    ASSUME Complete
    PROVE  RoutesSpec => []EverythingElseIsLast
<1>1. Complete
  OBVIOUS
<1>2. RoutesSpec => []RoutesInv
  BY <1>1, InitRoutes, RoutesStep, PTL DEF RoutesSpec
<1>. QED BY <1>2, RoutesGood, PTL

\* ... and whatever makes another revision the active one, or writes it into the draft,
\* leaves a draft that is no different from it.
THEOREM PublicationsAreClean ==
    ASSUME Complete
    PROVE  RoutesSpec => CleanWhenPublished
<1>1. Complete
  OBVIOUS
<1>2. RoutesSpec => []RoutesInv
  BY <1>1, InitRoutes, RoutesStep, PTL DEF RoutesSpec
<1>. QED BY <1>1, <1>2, RoutesStep, PTL DEF RoutesSpec, CleanWhenPublished

-----------------------------------------------------------------------------
(* Journal: pages *)

\* The order of the journal, and what a filter lets through of its first events.
LaterIn(ev, a, b) == ev[a].at > ev[b].at \/ (ev[a].at = ev[b].at /\ a > b)
SeenIn(ev, f, u) == {e \in 1..Len(ev) : e <= u /\ ev[e].kind \in f}

Sorted(ev, list) == \A i, j \in 1..Len(list) : i < j => LaterIn(ev, list[i], list[j])
Has(list, e) == \E i \in 1..Len(list) : list[i] = e

\* Whether a list that goes on at n has come as far as an event.
Reaches(ev, list, n, e) == n = 0 \/ (list # <<>> /\ ~LaterIn(ev, list[Len(list)], e))

\* Whether a list goes on where it ends.
EndsAt(list, n) == n # 0 => list # <<>> /\ n = list[Len(list)]

\* Whether a list has all that it has come as far as.
Covers(ev, list, n, rows) == \A e \in rows : Reaches(ev, list, n, e) => Has(list, e)

\* What the server answers when the first u events are recorded.
PageOf(ev, p, f, before, u) ==
    LET rows == SeenIn(ev, f, u)
    IN  /\ p.events \in Seq(rows) /\ Sorted(ev, p.events)
        /\ p.total = Cardinality(rows)
        /\ EndsAt(p.events, p.next)
        /\ before \in rows => \A i \in 1..Len(p.events) : LaterIn(ev, before, p.events[i])
        /\ \A e \in rows :
              (before \in rows => LaterIn(ev, before, e)) /\ Reaches(ev, p.events, p.next, e)
                  => Has(p.events, e)

JournalTypes == events \in Seq(Event) /\ stamp \in Nat \ {0}

\* Of the requests under way only one is the latest, and is for what is chosen.
Pending == requests \cup {a.to : a \in answers}
LatestIsOne ==
    /\ \A r \in Pending :
          /\ r.stamp \in 1..stamp
          /\ r.first => r.before = 0
          /\ r.stamp = stamp => r.filter = filter
    /\ \A r \in requests : r.stamp = stamp =>
          /\ \A s \in requests : s.stamp = stamp => s = r
          /\ \A a \in answers : a.to.stamp # stamp
    /\ \A a, b \in answers : a.to.stamp = stamp /\ b.to.stamp = stamp => a = b

\* Unless it is for a first page, it goes on where the list ends.
GoesOn ==
    ~unsure => \A r \in Pending :
        r.stamp = stamp /\ ~r.first => r.filter = of /\ r.before = next /\ next # 0

Answered ==
    \A a \in answers :
        /\ a.upTo \in 0..Len(events)
        /\ PageOf(events, a.page, a.to.filter, a.to.before, a.upTo)

\* All that is shown was there when the answer that goes on was given.
ComesAfter ==
    ~unsure => \A a \in answers :
        a.to.stamp = stamp => upTo <= a.upTo /\ shown \in Seq(SeenIn(events, of, a.upTo))

\* What is shown, once a first page is.
Joins ==
    ~unsure =>
        /\ ~busy => of = filter
        /\ upTo \in 0..Len(events)
        /\ shown \in Seq(SeenIn(events, of, Len(events))) /\ Sorted(events, shown)
        /\ EndsAt(shown, next)
        /\ Covers(events, shown, next, SeenIn(events, of, upTo))
        /\ total \in Nat /\ Len(shown) <= total

JournalInv == JournalTypes /\ LatestIsOne /\ GoesOn /\ Answered /\ ComesAfter /\ Joins

\* The events can be counted.
LEMMA SeenCounted ==
    ASSUME NEW ev \in Seq(Event), NEW f, NEW u
    PROVE  /\ SeenIn(ev, f, u) \in SUBSET (1..Len(ev))
           /\ IsFiniteSet(SeenIn(ev, f, u)) /\ Cardinality(SeenIn(ev, f, u)) \in Nat
<1>1. Len(ev) \in Nat
  BY LenProperties
<1>2. IsFiniteSet(1..Len(ev))
  BY <1>1, FS_Interval
<1>3. SeenIn(ev, f, u) \in SUBSET (1..Len(ev))
  BY DEF SeenIn
<1>. QED BY <1>2, <1>3, FS_Subset, FS_CardinalityType

\* Times are numbers.
LEMMA AtIs ==
    ASSUME NEW ev \in Seq(Event), NEW e \in 1..Len(ev)
    PROVE  ev[e].at \in Nat /\ e \in Nat
<1>1. ev[e] \in Event /\ Len(ev) \in Nat
  BY LenProperties
<1>. QED BY <1>1, JournalAssumption DEF Event, JournalAssumption

\* The journal has one order, in which no two events are level.
LEMMA LaterOrders ==
    ASSUME NEW ev \in Seq(Event), NEW a \in 1..Len(ev), NEW b \in 1..Len(ev), NEW c \in 1..Len(ev)
    PROVE  /\ LaterIn(ev, a, b) => ~LaterIn(ev, b, a)
           /\ LaterIn(ev, a, b) /\ LaterIn(ev, b, c) => LaterIn(ev, a, c)
           /\ a # b => LaterIn(ev, a, b) \/ LaterIn(ev, b, a)
<1>1. /\ ev[a].at \in Nat /\ ev[b].at \in Nat /\ ev[c].at \in Nat
      /\ a \in Nat /\ b \in Nat /\ c \in Nat
  BY AtIs
<1>. QED BY <1>1 DEF LaterIn

LEMMA BehindOrders ==
    ASSUME events \in Seq(Event), NEW f
    PROVE  /\ Matching(f) = SeenIn(events, f, Len(events))
           /\ \A a, b : <<a, b>> \in Behind(f) <=>
                            a \in Matching(f) /\ b \in Matching(f) /\ LaterIn(events, a, b)
           /\ Orders(Behind(f), Matching(f))
<1>1. DOMAIN events = 1..Len(events) /\ Len(events) \in Nat
  BY LenProperties
<1>2. Matching(f) = SeenIn(events, f, Len(events))
  BY <1>1 DEF Matching, SeenIn
<1>3. Matching(f) \in SUBSET (1..Len(events))
  BY <1>1 DEF Matching
<1>4. ASSUME NEW a, NEW b
      PROVE  <<a, b>> \in Behind(f) <=>
                 a \in Matching(f) /\ b \in Matching(f) /\ LaterIn(events, a, b)
  BY DEF Behind, Later, LaterIn
<1> HIDE DEF Matching
<1>5. Orders(Behind(f), Matching(f))
  <2>1. Asymmetric(Behind(f))
    BY <1>3, <1>4, LaterOrders DEF Asymmetric
  <2>2. ASSUME NEW a \in Matching(f), NEW b \in Matching(f), NEW c \in Matching(f),
               <<a, b>> \in Behind(f), <<b, c>> \in Behind(f)
        PROVE  <<a, c>> \in Behind(f)
    BY <1>3, <1>4, <2>2, LaterOrders
  <2>3. ASSUME NEW a \in Matching(f), NEW b \in Matching(f), a # b
        PROVE  <<a, b>> \in Behind(f) \/ <<b, a>> \in Behind(f)
    BY <1>3, <1>4, <2>3, LaterOrders
  <2>. QED BY <2>1, <2>2, <2>3 DEF Orders
<1>. QED BY <1>2, <1>4, <1>5

\* What list() answers is a page.
LEMMA ListIsPage ==
    ASSUME events \in Seq(Event), NEW f, NEW before, NEW limit \in Nat \ {0}
    PROVE  PageOf(events, List(f, before, limit), f, before, Len(events))
<1> DEFINE rows == Matching(f)
           N == Cardinality(rows)
           all == Listed(rows, Behind(f))
           from == IF before \in rows THEN CHOOSE i \in DOMAIN all : all[i] = before ELSE 0
           available == SubSeq(all, from + 1, Len(all))
           more == Len(available) > limit
           page == IF more THEN SubSeq(available, 1, limit) ELSE available
           p == List(f, before, limit)
<1>1. /\ rows = SeenIn(events, f, Len(events))
      /\ rows \in SUBSET (1..Len(events))
      /\ IsFiniteSet(rows)
  BY BehindOrders, SeenCounted
<1>2. \A a \in rows, b \in rows : <<a, b>> \in Behind(f) <=> LaterIn(events, a, b)
  BY BehindOrders
<1>3. Orders(Behind(f), rows)
  BY BehindOrders
<1>4. /\ p.events = page /\ p.total = Len(all)
      /\ p.next = IF more THEN Last(page) ELSE 0
  BY DEF List
<1> HIDE DEF rows, p
<1>5. /\ N \in Nat
      /\ all \in [1..N -> rows]
      /\ Increasing(all, N, Behind(f))
      /\ \A r \in rows : \E i \in 1..N : all[i] = r
  BY <1>1, <1>3, ListedAll
<1> HIDE DEF N, all
<1>6. all \in Seq(rows) /\ Len(all) = N /\ DOMAIN all = 1..N
  <2>1. all \in Seq(rows)
    BY <1>5, SMT
  <2>. QED BY <1>5, <2>1, LenProperties
<1>7. /\ from \in 0..N
      /\ before \in rows => from \in 1..N /\ all[from] = before
      /\ before \notin rows => from = 0
  BY <1>5, <1>6
<1> HIDE DEF from
<1>8. /\ available \in Seq(rows) /\ Len(available) = N - from
      /\ \A i \in 1..N - from : available[i] = all[from + i]
  <2>1. \A i \in from + 1 .. Len(all) : all[i] \in rows
    BY <1>5, <1>6, <1>7
  <2>2. from + 1 \in Int /\ Len(all) \in Int
    BY <1>5, <1>6, <1>7
  <2>3. /\ available \in Seq(rows)
        /\ Len(available) = IF from + 1 <= Len(all) THEN Len(all) - (from + 1) + 1 ELSE 0
        /\ \A i \in 1 .. Len(all) - (from + 1) + 1 : available[i] = all[from + 1 + i - 1]
    BY <2>1, <2>2, SubSeqProperties
  <2> HIDE DEF available
  <2>4. /\ Len(available) = N - from
        /\ Len(all) - (from + 1) + 1 = N - from
    BY <1>5, <1>6, <1>7, <2>3
  <2>5. ASSUME NEW i \in 1..N - from PROVE available[i] = all[from + i]
    <3>1. from + 1 + i - 1 = from + i
      BY <1>5, <1>7
    <3>2. available[i] = all[from + 1 + i - 1]
      BY <2>3, <2>4
    <3>. QED BY <3>1, <3>2
  <2>. QED BY <2>3, <2>4, <2>5
<1> HIDE DEF available
<1> DEFINE m == IF more THEN limit ELSE N - from
<1>9. /\ page \in Seq(rows) /\ Len(page) = m /\ m \in Nat /\ from + m <= N
      /\ \A i \in 1..m : page[i] = all[from + i]
  <2>1. CASE more
    <3>1. limit < N - from /\ 1 \in Int /\ limit \in Int
      BY <1>8, <2>1
    <3>2. \A i \in 1..limit : available[i] \in rows
      BY <1>5, <1>7, <1>8, <3>1, LenProperties
    <3>3. /\ SubSeq(available, 1, limit) \in Seq(rows)
          /\ Len(SubSeq(available, 1, limit)) = IF 1 <= limit THEN limit - 1 + 1 ELSE 0
          /\ \A i \in 1 .. limit - 1 + 1 : SubSeq(available, 1, limit)[i] = available[1 + i - 1]
      BY <3>1, <3>2, SubSeqProperties
    <3>4. page = SubSeq(available, 1, limit) /\ m = limit
      BY <2>1
    <3> HIDE DEF page, m
    <3>5. /\ page \in Seq(rows) /\ Len(page) = m /\ m \in Nat /\ from + m <= N
          /\ limit - 1 + 1 = limit
      BY <1>5, <1>7, <1>8, <3>1, <3>3, <3>4
    <3>6. ASSUME NEW i \in 1..m PROVE page[i] = all[from + i]
      <4>1. i \in 1 .. limit - 1 + 1 /\ i \in 1 .. N - from /\ 1 + i - 1 = i
        BY <1>5, <1>7, <3>1, <3>4, <3>5
      <4>2. page[i] = available[1 + i - 1]
        BY <3>3, <3>4, <4>1
      <4>. QED BY <1>8, <4>1, <4>2
    <3>. QED BY <3>5, <3>6
  <2>2. CASE ~more
    <3>1. page = available /\ m = N - from
      BY <2>2
    <3> HIDE DEF page, m
    <3>. QED BY <1>5, <1>7, <1>8, <3>1
  <2>. QED BY <2>1, <2>2
<1>10. more => m = limit /\ Last(page) = page[Len(page)] /\ page # <<>>
  <2>1. SUFFICES ASSUME more PROVE m = limit /\ Last(page) = page[Len(page)] /\ page # <<>>
    OBVIOUS
  <2>2. m = limit
    BY <2>1
  <2> HIDE DEF page, m
  <2>. QED BY <1>9, <2>2 DEF Last
<1>11. ~more => m = N - from
  OBVIOUS
<1> HIDE DEF more, page, m
<1>12. Sorted(events, page)
  <2>1. ASSUME NEW i \in 1..Len(page), NEW j \in 1..Len(page), i < j
        PROVE  LaterIn(events, page[i], page[j])
    <3>1. from + i \in 1..N /\ from + j \in 1..N /\ from + i < from + j
      BY <1>5, <1>7, <1>9, <2>1
    <3>2. page[i] = all[from + i] /\ page[j] = all[from + j]
      BY <1>9
    <3>3. <<page[i], page[j]>> \in Behind(f)
      BY <1>5, <3>1, <3>2 DEF Increasing
    <3>4. page[i] \in rows /\ page[j] \in rows
      BY <1>5, <3>1, <3>2
    <3>. QED BY <1>2, <3>3, <3>4
  <2>. QED BY <2>1 DEF Sorted
<1>13. ASSUME before \in rows, NEW i \in 1..Len(page)
       PROVE  LaterIn(events, before, page[i])
  <2>1. from \in 1..N /\ from + i \in 1..N /\ from < from + i
    BY <1>5, <1>7, <1>9, <1>13
  <2>2. before = all[from] /\ page[i] = all[from + i]
    BY <1>7, <1>9, <1>13
  <2>3. <<before, page[i]>> \in Behind(f) /\ page[i] \in rows
    BY <1>5, <2>1, <2>2 DEF Increasing
  <2>. QED BY <1>2, <1>13, <2>3
<1>14. ASSUME NEW e \in rows, before \in rows => LaterIn(events, before, e),
              Reaches(events, page, p.next, e)
       PROVE  Has(page, e)
  <2>1. PICK k \in 1..N : all[k] = e
    BY <1>5
  <2>2. from < k
    <3>1. CASE before \in rows
      <4>1. ~(k < from)
        <5>1. SUFFICES ASSUME k < from PROVE FALSE
          OBVIOUS
        <5>2. <<e, before>> \in Behind(f)
          BY <1>5, <1>7, <2>1, <3>1, <5>1 DEF Increasing
        <5>. QED BY <1>1, <1>2, <1>14, <3>1, <5>2, LaterOrders
      <4>2. k # from
        BY <1>1, <1>7, <1>14, <2>1, <3>1, LaterOrders
      <4>. QED BY <1>5, <1>7, <4>1, <4>2
    <3>2. CASE before \notin rows
      BY <1>7, <3>2
    <3>. QED BY <3>1, <3>2
  <2>3. k <= from + m
    <3>1. CASE more
      <4>1. SUFFICES ASSUME from + m < k PROVE FALSE
        BY <1>5, <1>7, <1>9
      <4>2. m \in 1..Len(page) /\ Len(page) = m
        BY <1>9, <1>10, <3>1
      <4>3. page[m] = all[from + m] /\ from + m \in 1..N
        BY <1>5, <1>7, <1>9, <4>2
      <4>4. <<page[m], e>> \in Behind(f) /\ page[m] \in rows
        BY <1>5, <2>1, <4>1, <4>3 DEF Increasing
      <4>5. LaterIn(events, page[Len(page)], e)
        BY <1>2, <4>2, <4>4
      <4>6. p.next = page[m] /\ p.next # 0
        BY <1>1, <1>4, <1>10, <3>1, <4>2, <4>4
      <4>. QED BY <1>14, <4>5, <4>6 DEF Reaches
    <3>2. CASE ~more
      BY <1>5, <1>7, <1>11, <3>2
    <3>. QED BY <3>1, <3>2
  <2>4. k - from \in 1..m /\ page[k - from] = e
    <3>1. k - from \in 1..m
      BY <1>5, <1>7, <1>9, <2>2, <2>3
    <3>. QED BY <1>7, <1>9, <2>1, <3>1
  <2>. QED BY <1>9, <2>4 DEF Has
<1>15. EndsAt(page, p.next)
  BY <1>4, <1>10 DEF EndsAt
<1>16. p.total = Cardinality(rows)
  BY <1>4, <1>6 DEF N
<1> DEFINE seen == SeenIn(events, f, Len(events))
<1>17. /\ p.events \in Seq(seen) /\ Sorted(events, p.events)
       /\ p.total = Cardinality(seen)
       /\ EndsAt(p.events, p.next)
       /\ before \in seen => \A i \in 1..Len(p.events) : LaterIn(events, before, p.events[i])
  BY <1>1, <1>4, <1>9, <1>12, <1>13, <1>15, <1>16
<1>18. \A e \in seen :
          (before \in seen => LaterIn(events, before, e)) /\ Reaches(events, p.events, p.next, e)
              => Has(p.events, e)
  BY <1>1, <1>4, <1>14
<1>. QED BY <1>17, <1>18 DEF PageOf, p

\* Of the events there were, more events change neither the order nor what is let through.
LEMMA AfterMore ==
    ASSUME NEW ev \in Seq(Event), NEW x \in Event
    PROVE  /\ Append(ev, x) \in Seq(Event)
           /\ Len(ev) \in Nat /\ Len(Append(ev, x)) = Len(ev) + 1
           /\ \A a, b \in 1..Len(ev) : LaterIn(Append(ev, x), a, b) <=> LaterIn(ev, a, b)
           /\ \A f : \A u \in 0..Len(ev) : SeenIn(Append(ev, x), f, u) = SeenIn(ev, f, u)
           /\ \A f : SeenIn(ev, f, Len(ev)) \in
                        SUBSET SeenIn(Append(ev, x), f, Len(Append(ev, x)))
<1> DEFINE ew == Append(ev, x)
<1>1. /\ ew \in Seq(Event) /\ Len(ev) \in Nat /\ Len(ew) = Len(ev) + 1
      /\ \A i \in 1..Len(ev) : ew[i] = ev[i]
  BY AppendProperties, LenProperties
<1> HIDE DEF ew
<1>2. \A a, b \in 1..Len(ev) : LaterIn(ew, a, b) <=> LaterIn(ev, a, b)
  BY <1>1 DEF LaterIn
<1>3. ASSUME NEW f, NEW u \in 0..Len(ev) PROVE SeenIn(ew, f, u) = SeenIn(ev, f, u)
  BY <1>1 DEF SeenIn
<1>4. ASSUME NEW f PROVE SeenIn(ev, f, Len(ev)) \in SUBSET SeenIn(ew, f, Len(ew))
  BY <1>1 DEF SeenIn
<1>. QED BY <1>1, <1>2, <1>3, <1>4 DEF ew

LEMMA SeenIsThere ==
    ASSUME NEW ev \in Seq(Event), NEW f, NEW u
    PROVE  /\ \A e \in SeenIn(ev, f, u) : e \in 1..Len(ev) /\ e # 0
           /\ \A v \in Nat : u \in Nat /\ u <= v => SeenIn(ev, f, u) \in SUBSET SeenIn(ev, f, v)
<1>1. Len(ev) \in Nat
  BY LenProperties
<1>. QED BY <1>1 DEF SeenIn

\* A list of some rows is one of any set that has them.
LEMMA ListIn ==
    ASSUME NEW S, NEW T, S \in SUBSET T, NEW list \in Seq(S)
    PROVE  /\ list \in Seq(T) /\ Len(list) \in Nat
           /\ \A i \in 1..Len(list) : list[i] \in S
<1>1. list \in [1..Len(list) -> S] /\ Len(list) \in Nat
  BY LenProperties
<1>2. list \in [1..Len(list) -> T]
  BY <1>1
<1>3. \A n \in Nat : [1..n -> T] \subseteq Seq(T)
  BY SMT
<1>. QED BY <1>1, <1>2, <1>3

LEMMA SortedStays ==
    ASSUME NEW ev \in Seq(Event), NEW x \in Event, NEW f, NEW u,
           NEW list \in Seq(SeenIn(ev, f, u))
    PROVE  /\ Sorted(ev, list) <=> Sorted(Append(ev, x), list)
           /\ \A n : \A e \in 1..Len(ev) :
                 Reaches(ev, list, n, e) <=> Reaches(Append(ev, x), list, n, e)
<1> DEFINE ew == Append(ev, x)
<1>1. \A a, b \in 1..Len(ev) : LaterIn(ew, a, b) <=> LaterIn(ev, a, b)
  BY AfterMore
<1>2. \A i \in 1..Len(list) : list[i] \in 1..Len(ev)
  BY ListIn, SeenIsThere
<1>3. Len(list) \in Nat /\ (list # <<>> => Len(list) \in 1..Len(list))
  BY LenProperties, EmptySeq
<1> HIDE DEF ew
<1>4. Sorted(ev, list) <=> Sorted(ew, list)
  BY <1>1, <1>2 DEF Sorted
<1>5. ASSUME NEW n, NEW e \in 1..Len(ev)
      PROVE  Reaches(ev, list, n, e) <=> Reaches(ew, list, n, e)
  BY <1>1, <1>2, <1>3 DEF Reaches
<1>. QED BY <1>4, <1>5 DEF ew

LEMMA PageStays ==
    ASSUME NEW ev \in Seq(Event), NEW x \in Event, NEW p, NEW f, NEW before,
           NEW u \in 0..Len(ev), PageOf(ev, p, f, before, u)
    PROVE  PageOf(Append(ev, x), p, f, before, u)
<1> DEFINE ew == Append(ev, x)
           rows == SeenIn(ev, f, u)
<1>1. SeenIn(ew, f, u) = rows
  BY AfterMore
<1>2. \A a, b \in 1..Len(ev) : LaterIn(ew, a, b) <=> LaterIn(ev, a, b)
  BY AfterMore
<1>3. \A e \in rows : e \in 1..Len(ev)
  BY SeenIsThere
<1>4. /\ p.events \in Seq(rows) /\ Sorted(ev, p.events)
      /\ p.total = Cardinality(rows)
      /\ EndsAt(p.events, p.next)
      /\ before \in rows => \A i \in 1..Len(p.events) : LaterIn(ev, before, p.events[i])
      /\ \A e \in rows :
            (before \in rows => LaterIn(ev, before, e)) /\ Reaches(ev, p.events, p.next, e)
                => Has(p.events, e)
  BY DEF PageOf
<1>5. \A i \in 1..Len(p.events) : p.events[i] \in rows
  BY <1>4, ListIn
<1>6. /\ Sorted(ew, p.events)
      /\ \A n : \A e \in 1..Len(ev) : Reaches(ev, p.events, n, e) <=> Reaches(ew, p.events, n, e)
  BY <1>4, SortedStays
<1> HIDE DEF ew, rows
<1>7. before \in rows => \A i \in 1..Len(p.events) : LaterIn(ew, before, p.events[i])
  BY <1>2, <1>3, <1>4, <1>5
<1>8. ASSUME NEW e \in rows, before \in rows => LaterIn(ew, before, e),
             Reaches(ew, p.events, p.next, e)
      PROVE  Has(p.events, e)
  BY <1>2, <1>3, <1>4, <1>6, <1>8
<1>9. PageOf(ew, p, f, before, u)
  BY <1>1, <1>4, <1>6, <1>7, <1>8 DEF PageOf
<1>. QED BY <1>9 DEF ew

-----------------------------------------------------------------------------
(* Journal: the steps *)

\* An event more disturbs nothing that is shown or answered.
LEMMA RecordStep ==
    ASSUME JournalInv, NEW x \in Event, Record(x)
    PROVE  JournalInv'
<1>1. /\ events \in Seq(Event) /\ stamp \in Nat \ {0}
      /\ LatestIsOne /\ GoesOn /\ Answered /\ ComesAfter /\ Joins
  BY DEF JournalInv, JournalTypes
<1>2. /\ events' = Append(events, x)
      /\ UNCHANGED <<filter, shown, next, total, stamp, busy, requests, answers, of, upTo, unsure>>
  BY DEF Record
<1>3. /\ events' \in Seq(Event)
      /\ Len(events) \in Nat /\ Len(events') = Len(events) + 1
      /\ \A f : \A u \in 0..Len(events) : SeenIn(events', f, u) = SeenIn(events, f, u)
      /\ \A f : SeenIn(events, f, Len(events)) \in SUBSET SeenIn(events', f, Len(events'))
  BY <1>1, <1>2, AfterMore
<1>4. JournalTypes'
  BY <1>1, <1>2, <1>3 DEF JournalTypes
<1>5. LatestIsOne'
  BY <1>1, <1>2 DEF LatestIsOne, Pending
<1>6. GoesOn'
  BY <1>1, <1>2 DEF GoesOn, Pending
<1>7. Answered'
  <2>1. SUFFICES ASSUME NEW a \in answers
                 PROVE  /\ a.upTo \in 0..Len(events')
                        /\ PageOf(events', a.page, a.to.filter, a.to.before, a.upTo)
    BY <1>2 DEF Answered
  <2>2. /\ a.upTo \in 0..Len(events)
        /\ PageOf(events, a.page, a.to.filter, a.to.before, a.upTo)
    BY <1>1 DEF Answered
  <2>3. PageOf(events', a.page, a.to.filter, a.to.before, a.upTo)
    BY <1>1, <1>2, <2>2, PageStays
  <2>. QED BY <1>3, <2>2, <2>3
<1>8. ComesAfter'
  <2>1. SUFFICES ASSUME ~unsure, NEW a \in answers, a.to.stamp = stamp
                 PROVE  upTo <= a.upTo /\ shown \in Seq(SeenIn(events', of, a.upTo))
    BY <1>2 DEF ComesAfter
  <2>2. a.upTo \in 0..Len(events)
    BY <1>1 DEF Answered
  <2>. QED BY <1>1, <1>3, <2>1, <2>2 DEF ComesAfter
<1>9. Joins'
  <2>1. SUFFICES ASSUME ~unsure PROVE Joins'
    BY <1>2 DEF Joins
  <2> DEFINE seen == SeenIn(events, of, Len(events))
             more == SeenIn(events', of, Len(events'))
  <2>2. /\ ~busy => of = filter
        /\ upTo \in 0..Len(events)
        /\ shown \in Seq(seen) /\ Sorted(events, shown)
        /\ EndsAt(shown, next)
        /\ Covers(events, shown, next, SeenIn(events, of, upTo))
        /\ total \in Nat /\ Len(shown) <= total
    BY <1>1, <2>1 DEF Joins
  <2>3. /\ Sorted(events', shown)
        /\ \A e \in 1..Len(events) :
              Reaches(events, shown, next, e) <=> Reaches(events', shown, next, e)
    BY <1>1, <1>2, <2>2, SortedStays
  <2>4. shown \in Seq(more)
    BY <1>3, <2>2, ListIn
  <2>5. SeenIn(events', of, upTo) = SeenIn(events, of, upTo)
    BY <1>3, <2>2
  <2>6. \A e \in SeenIn(events, of, upTo) : e \in 1..Len(events)
    BY <1>1, SeenIsThere
  <2>7. Covers(events', shown, next, SeenIn(events', of, upTo))
    BY <2>2, <2>3, <2>5, <2>6 DEF Covers
  <2>8. upTo \in 0..Len(events')
    BY <1>3, <2>2
  <2>. QED BY <1>2, <2>2, <2>3, <2>4, <2>7, <2>8 DEF Joins
<1>. QED BY <1>4, <1>5, <1>6, <1>7, <1>8, <1>9 DEF JournalInv

LEMMA JoinsStays ==
    ASSUME Joins, UNCHANGED <<events, filter, shown, next, total, busy, of, upTo, unsure>>
    PROVE  Joins'
BY DEF Joins

\* What is listed now comes after all that is shown.
LEMMA AnswerStep ==
    ASSUME JournalInv, NEW r \in requests, Answer(r)
    PROVE  JournalInv'
<1> DEFINE it == [to |-> r, page |-> List(r.filter, r.before, PageSize), upTo |-> Len(events)]
<1>1. /\ events \in Seq(Event) /\ stamp \in Nat \ {0}
      /\ LatestIsOne /\ GoesOn /\ Answered /\ ComesAfter /\ Joins
  BY DEF JournalInv, JournalTypes
<1>2. /\ requests' = requests \ {r} /\ answers' = answers \cup {it}
      /\ UNCHANGED <<events, filter, shown, next, total, stamp, busy, of, upTo, unsure>>
  BY DEF Answer
<1>3. it.to = r /\ it.page = List(r.filter, r.before, PageSize) /\ it.upTo = Len(events)
  OBVIOUS
<1>4. PageOf(events, it.page, r.filter, r.before, Len(events))
  BY <1>1, <1>3, ListIsPage, JournalAssumption DEF JournalAssumption
<1> HIDE DEF it
<1>5. Pending' \subseteq Pending
  BY <1>2, <1>3 DEF Pending
<1>6. Len(events) \in Nat
  BY <1>1, LenProperties
<1>7. JournalTypes'
  BY <1>1, <1>2 DEF JournalTypes
<1>8. LatestIsOne'
  <2>1. \A q \in Pending :
           /\ q.stamp \in 1..stamp
           /\ q.first => q.before = 0
           /\ q.stamp = stamp => q.filter = filter
    BY <1>1 DEF LatestIsOne
  <2>2. \A q \in requests' : q.stamp = stamp =>
            /\ \A s \in requests' : s.stamp = stamp => s = q
            /\ \A a \in answers' : a.to.stamp # stamp
    BY <1>1, <1>2, <1>3 DEF LatestIsOne
  <2>3. \A a, b \in answers' : a.to.stamp = stamp /\ b.to.stamp = stamp => a = b
    BY <1>1, <1>2, <1>3 DEF LatestIsOne
  <2>. QED BY <1>2, <1>5, <2>1, <2>2, <2>3 DEF LatestIsOne
<1>9. GoesOn'
  BY <1>1, <1>2, <1>5 DEF GoesOn
<1>10. Answered'
  <2>1. ASSUME NEW a \in answers'
        PROVE  /\ a.upTo \in 0..Len(events)
               /\ PageOf(events, a.page, a.to.filter, a.to.before, a.upTo)
    <3>1. CASE a = it
      BY <1>3, <1>4, <1>6, <3>1
    <3>2. CASE a \in answers
      BY <1>1, <3>2 DEF Answered
    <3>. QED BY <1>2, <3>1, <3>2
  <2>. QED BY <1>2, <2>1 DEF Answered
<1>11. ComesAfter'
  <2>1. SUFFICES ASSUME ~unsure, NEW a \in answers', a.to.stamp = stamp
                 PROVE  upTo <= a.upTo /\ shown \in Seq(SeenIn(events, of, a.upTo))
    BY <1>2 DEF ComesAfter
  <2>2. CASE a = it
    BY <1>1, <1>3, <1>6, <2>1, <2>2 DEF Joins
  <2>3. CASE a \in answers
    BY <1>1, <2>1, <2>3 DEF ComesAfter
  <2>. QED BY <1>2, <2>2, <2>3
<1>12. Joins'
  BY <1>1, <1>2, JoinsStays
<1>. QED BY <1>7, <1>8, <1>9, <1>10, <1>11, <1>12 DEF JournalInv

\* A new request leaves those before it behind, wherever they are.
LEMMA LoadStep ==
    ASSUME JournalInv, NEW first \in BOOLEAN, Load(filter', first),
           ~first => ~busy /\ next # 0 /\ filter' = filter
    PROVE  JournalInv'
<1> DEFINE it == [stamp |-> stamp + 1, filter |-> filter', first |-> first,
                  before |-> IF first THEN 0 ELSE next]
<1>1. /\ events \in Seq(Event) /\ stamp \in Nat \ {0}
      /\ LatestIsOne /\ GoesOn /\ Answered /\ ComesAfter /\ Joins
  BY DEF JournalInv, JournalTypes
<1>2. /\ stamp' = stamp + 1 /\ busy' = TRUE /\ requests' = requests \cup {it}
      /\ UNCHANGED <<events, shown, next, total, answers, of, upTo, unsure>>
  BY DEF Load
<1>3. /\ it.stamp = stamp + 1 /\ it.filter = filter' /\ it.first = first
      /\ it.before = IF first THEN 0 ELSE next
  OBVIOUS
<1> HIDE DEF it
<1>4. Pending' = Pending \cup {it}
  BY <1>2 DEF Pending
<1>5. \A q \in Pending : q.stamp \in 1..stamp /\ q.stamp # stamp'
  BY <1>1, <1>2 DEF LatestIsOne
<1>6. \A q \in requests : q \in Pending
  BY DEF Pending
<1>7. \A a \in answers : a.to \in Pending
  BY DEF Pending
<1>8. JournalTypes'
  BY <1>1, <1>2 DEF JournalTypes
<1>9. LatestIsOne'
  <2>1. ASSUME NEW q \in Pending'
        PROVE  /\ q.stamp \in 1..stamp'
               /\ q.first => q.before = 0
               /\ q.stamp = stamp' => q.filter = filter'
    <3>1. CASE q = it
      BY <1>1, <1>2, <1>3, <3>1
    <3>2. CASE q \in Pending
      BY <1>1, <1>2, <1>5, <3>2 DEF LatestIsOne
    <3>. QED BY <1>4, <3>1, <3>2
  <2>2. \A q \in requests' : q.stamp = stamp' =>
            /\ \A s \in requests' : s.stamp = stamp' => s = q
            /\ \A a \in answers' : a.to.stamp # stamp'
    BY <1>2, <1>5, <1>6, <1>7
  <2>3. \A a, b \in answers' : a.to.stamp = stamp' /\ b.to.stamp = stamp' => a = b
    BY <1>2, <1>5, <1>7
  <2>. QED BY <2>1, <2>2, <2>3 DEF LatestIsOne
<1>10. GoesOn'
  <2>1. SUFFICES ASSUME ~unsure, NEW q \in Pending', q.stamp = stamp', ~q.first
                 PROVE  q.filter = of /\ q.before = next /\ next # 0
    BY <1>2 DEF GoesOn
  <2>2. q = it
    BY <1>4, <1>5, <2>1
  <2>3. of = filter
    BY <1>1, <1>3, <2>1, <2>2 DEF Joins
  <2>. QED BY <1>3, <2>1, <2>2, <2>3
<1>11. Answered'
  BY <1>1, <1>2 DEF Answered
<1>12. ComesAfter'
  BY <1>2, <1>5, <1>7 DEF ComesAfter
<1>13. Joins'
  BY <1>1, <1>2 DEF Joins
<1>. QED BY <1>8, <1>9, <1>10, <1>11, <1>12, <1>13 DEF JournalInv

\* A list in order of rows that can be counted is no longer than they are many.
LEMMA NotTooLong ==
    ASSUME NEW ev \in Seq(Event), NEW f, NEW u,
           NEW list \in Seq(SeenIn(ev, f, u)), Sorted(ev, list)
    PROVE  /\ Cardinality(SeenIn(ev, f, u)) \in Nat
           /\ Len(list) <= Cardinality(SeenIn(ev, f, u))
<1> DEFINE rows == SeenIn(ev, f, u)
           N == Len(list)
<1>1. rows \in SUBSET (1..Len(ev)) /\ IsFiniteSet(rows) /\ Cardinality(rows) \in Nat
  BY SeenCounted
<1> HIDE DEF rows
<1>2. N \in Nat /\ list \in [1..N -> rows] /\ \A i \in 1..N : list[i] \in 1..Len(ev)
  BY <1>1, LenProperties DEF rows
<1>3. ASSUME NEW i \in 1..N, NEW j \in 1..N, list[i] = list[j] PROVE i = j
  <2>1. ~LaterIn(ev, list[i], list[j]) /\ ~LaterIn(ev, list[j], list[i])
    BY <1>2, <1>3, LaterOrders
  <2>2. ~(i < j) /\ ~(j < i)
    BY <2>1 DEF Sorted
  <2>. QED BY <1>2, <2>2
<1>4. list \in Injection(1..N, rows)
  BY <1>2, <1>3 DEF Injection, IsInjective
<1> HIDE DEF N
<1>5. IsFiniteSet(1..N) /\ Cardinality(1..N) = N
  BY <1>2, FS_Interval
<1>6. Cardinality(1..N) <= Cardinality(rows)
  BY <1>1, <1>4, FS_Injection
<1>. QED BY <1>1, <1>5, <1>6 DEF rows, N

\* The page that goes on where a list ends makes it longer, and leaves no gap.
LEMMA PagesGoOn ==
    ASSUME NEW ev \in Seq(Event), NEW f, NEW u \in Nat, NEW v \in Nat, u <= v,
           NEW list \in Seq(SeenIn(ev, f, v)), Sorted(ev, list),
           list # <<>>, Covers(ev, list, list[Len(list)], SeenIn(ev, f, u)),
           NEW p, PageOf(ev, p, f, list[Len(list)], v),
           NEW all, all = list \o p.events
    PROVE  /\ all \in Seq(SeenIn(ev, f, v)) /\ Sorted(ev, all)
           /\ EndsAt(all, p.next)
           /\ Covers(ev, all, p.next, SeenIn(ev, f, u))
<1> DEFINE rows == SeenIn(ev, f, v)
           page == p.events
           M == Len(list)
           N == Len(page)
           last == list[M]
<1>1. /\ page \in Seq(rows) /\ Sorted(ev, page)
      /\ EndsAt(page, p.next)
      /\ last \in rows => \A i \in 1..N : LaterIn(ev, last, page[i])
      /\ \A e \in rows :
            (last \in rows => LaterIn(ev, last, e)) /\ Reaches(ev, page, p.next, e) => Has(page, e)
  BY DEF PageOf
<1>2. \A e \in rows : e \in 1..Len(ev) /\ e # 0
  BY SeenIsThere
<1>3. SeenIn(ev, f, u) \in SUBSET rows
  BY SeenIsThere
<1> HIDE DEF rows, page
<1>4. M \in Nat /\ M # 0 /\ \A i \in 1..M : list[i] \in rows
  <2>1. M \in Nat /\ list \in [1..M -> rows]
    BY LenProperties DEF rows
  <2>2. M # 0
    BY EmptySeq DEF rows
  <2>. QED BY <2>1, <2>2
<1>5. N \in Nat /\ \A i \in 1..N : page[i] \in rows
  <2>1. N \in Nat /\ page \in [1..N -> rows]
    BY <1>1, LenProperties
  <2>. QED BY <2>1
<1>6. /\ all \in Seq(rows) /\ Len(all) = M + N
      /\ \A i \in 1 .. M + N : all[i] = IF i <= M THEN list[i] ELSE page[i - M]
  BY <1>1, ConcatProperties DEF rows, page
<1> HIDE DEF M, N
<1>7. last \in rows
  BY <1>4
<1>8. \A i \in 1..N : LaterIn(ev, last, page[i])
  BY <1>1, <1>7
<1>9. ASSUME NEW i \in 1..M, i # M PROVE LaterIn(ev, list[i], last)
  <2>1. i < M /\ M \in 1..M
    BY <1>4, <1>9
  <2>. QED BY <2>1 DEF Sorted, M
<1>10. Sorted(ev, all)
  <2>1. SUFFICES ASSUME NEW i \in 1 .. M + N, NEW j \in 1 .. M + N, i < j
                 PROVE  LaterIn(ev, all[i], all[j])
    BY <1>6 DEF Sorted
  <2>2. CASE j <= M
    <3>1. i \in 1..M /\ j \in 1..M /\ all[i] = list[i] /\ all[j] = list[j]
      BY <1>4, <1>5, <1>6, <2>1, <2>2
    <3>. QED BY <2>1, <3>1 DEF Sorted, M
  <2>3. CASE M < i
    <3>1. /\ i - M \in 1..N /\ j - M \in 1..N /\ i - M < j - M
          /\ ~(i <= M) /\ ~(j <= M)
      BY <1>4, <1>5, <2>1, <2>3
    <3>2. all[i] = page[i - M] /\ all[j] = page[j - M]
      BY <1>6, <2>1, <3>1
    <3>. QED BY <1>1, <3>1, <3>2 DEF Sorted, N
  <2>4. CASE i <= M /\ M < j
    <3>1. /\ i \in 1..M /\ j - M \in 1..N
          /\ all[i] = list[i] /\ all[j] = page[j - M]
      BY <1>4, <1>5, <1>6, <2>1, <2>4
    <3>2. LaterIn(ev, last, all[j])
      BY <1>8, <3>1
    <3>3. CASE i = M
      BY <3>1, <3>2, <3>3
    <3>4. CASE i # M
      <4>1. LaterIn(ev, all[i], last)
        BY <1>9, <3>1, <3>4
      <4>2. all[i] \in 1..Len(ev) /\ all[j] \in 1..Len(ev) /\ last \in 1..Len(ev)
        BY <1>2, <1>4, <1>5, <1>7, <3>1
      <4>. QED BY <3>2, <4>1, <4>2, LaterOrders
    <3>. QED BY <3>3, <3>4
  <2>5. j <= M \/ M < i \/ (i <= M /\ M < j)
    BY <1>4, <1>5, <2>1
  <2>. QED BY <2>2, <2>3, <2>4, <2>5
<1>11. all # <<>> /\ (page # <<>> => N # 0 /\ all[Len(all)] = page[N])
       /\ (page = <<>> => all[Len(all)] = last)
  <2>1. Len(all) # 0
    BY <1>4, <1>5, <1>6
  <2>2. all # <<>>
    BY <2>1, EmptySeq
  <2>3. page # <<>> => N # 0
    BY <1>1, EmptySeq DEF N
  <2>4. page = <<>> => N = 0
    BY EmptySeq DEF N
  <2>5. N # 0 => all[M + N] = page[N]
    <3>1. SUFFICES ASSUME N # 0 PROVE all[M + N] = page[N]
      OBVIOUS
    <3>2. M + N \in 1 .. M + N /\ ~(M + N <= M) /\ (M + N) - M = N
      BY <1>4, <1>5, <3>1
    <3>. QED BY <1>6, <3>2
  <2>6. N = 0 => all[M + N] = last
    <3>1. SUFFICES ASSUME N = 0 PROVE all[M + N] = last
      OBVIOUS
    <3>2. M + N = M /\ M \in 1 .. M + N /\ M <= M
      BY <1>4, <3>1
    <3>. QED BY <1>6, <3>2
  <2>. QED BY <1>6, <2>2, <2>3, <2>4, <2>5, <2>6
<1>12. EndsAt(all, p.next)
  BY <1>1, <1>11 DEF EndsAt, N
<1>13. ASSUME NEW e \in SeenIn(ev, f, u), Reaches(ev, all, p.next, e)
       PROVE  Has(all, e)
  <2>1. e \in rows /\ e \in 1..Len(ev) /\ last \in 1..Len(ev) /\ last # 0
    BY <1>2, <1>3, <1>7
  <2>2. CASE LaterIn(ev, last, e)
    <3>1. Reaches(ev, page, p.next, e)
      BY <1>11, <1>13, <2>2 DEF Reaches, N
    <3>2. PICK i \in 1..N : page[i] = e
      BY <1>1, <2>1, <2>2, <3>1 DEF Has, N
    <3>3. M + i \in 1 .. M + N /\ ~(M + i <= M) /\ (M + i) - M = i
      BY <1>4, <1>5, <3>2
    <3>4. all[M + i] = e
      BY <1>6, <3>2, <3>3
    <3>. QED BY <1>6, <3>3, <3>4 DEF Has
  <2>3. CASE ~LaterIn(ev, last, e)
    <3>1. Reaches(ev, list, last, e)
      BY <2>3 DEF Reaches, M
    <3>2. PICK i \in 1..M : list[i] = e
      BY <1>13, <3>1 DEF Covers, Has, M
    <3>3. i \in 1 .. M + N /\ i <= M
      BY <1>4, <1>5, <3>2
    <3>4. all[i] = e
      BY <1>6, <3>2, <3>3
    <3>. QED BY <1>6, <3>3, <3>4 DEF Has
  <2>. QED BY <2>2, <2>3
<1>14. Covers(ev, all, p.next, SeenIn(ev, f, u))
  BY <1>13 DEF Covers
<1>. QED BY <1>6, <1>10, <1>11, <1>12, <1>14 DEF page, rows

\* Only the answer to the latest request is shown, and it joins what is.
LEMMA ArrivesStep ==
    ASSUME JournalInv, NEW a \in answers, Arrives(a)
    PROVE  JournalInv'
<1>1. /\ events \in Seq(Event) /\ stamp \in Nat \ {0}
      /\ LatestIsOne /\ GoesOn /\ Answered /\ ComesAfter /\ Joins
  BY DEF JournalInv, JournalTypes
<1>2. /\ answers' = answers \ {a}
      /\ UNCHANGED <<events, filter, stamp, requests>>
  BY DEF Arrives
<1>3. Pending' \subseteq Pending
  BY <1>2 DEF Pending
<1>4. JournalTypes'
  BY <1>1, <1>2 DEF JournalTypes
<1>5. LatestIsOne'
  <2>1. \A r \in Pending' :
           /\ r.stamp \in 1..stamp
           /\ r.first => r.before = 0
           /\ r.stamp = stamp => r.filter = filter
    BY <1>1, <1>3 DEF LatestIsOne
  <2>2. \A r \in requests' : r.stamp = stamp =>
            /\ \A s \in requests' : s.stamp = stamp => s = r
            /\ \A b \in answers' : b.to.stamp # stamp
    BY <1>1, <1>2 DEF LatestIsOne
  <2>3. \A b, c \in answers' : b.to.stamp = stamp /\ c.to.stamp = stamp => b = c
    BY <1>1, <1>2 DEF LatestIsOne
  <2>. QED BY <1>2, <2>1, <2>2, <2>3 DEF LatestIsOne
<1>6. Answered'
  BY <1>1, <1>2 DEF Answered
<1>7. CASE a.to.stamp # stamp
  <2>1. UNCHANGED <<shown, total, next, busy, of, upTo, unsure>>
    BY <1>7 DEF Arrives, Ignored
  <2>2. GoesOn'
    BY <1>1, <1>2, <1>3, <2>1 DEF GoesOn
  <2>3. ComesAfter'
    BY <1>1, <1>2, <2>1 DEF ComesAfter
  <2>4. Joins'
    BY <1>1, <1>2, <2>1, JoinsStays
  <2>. QED BY <1>4, <1>5, <1>6, <2>2, <2>3, <2>4 DEF JournalInv
<1>8. CASE a.to.stamp = stamp
  <2>1. Shows(a)
    BY <1>8 DEF Arrives
  <2>2. /\ \A r \in requests : r.stamp # stamp
        /\ \A b \in answers' : b.to.stamp # stamp
    BY <1>1, <1>2, <1>8 DEF LatestIsOne
  <2>3. \A r \in Pending' : r.stamp # stamp
    BY <1>2, <2>2 DEF Pending
  <2>4. GoesOn'
    BY <1>2, <2>3 DEF GoesOn
  <2>5. ComesAfter'
    BY <1>2, <2>2 DEF ComesAfter
  <2>6. a.to \in Pending
    BY DEF Pending
  <2>7. /\ a.to.filter = filter
        /\ a.to.first => a.to.before = 0
    BY <1>1, <1>8, <2>6 DEF LatestIsOne
  <2>8. /\ a.upTo \in 0..Len(events) /\ Len(events) \in Nat
        /\ PageOf(events, a.page, a.to.filter, a.to.before, a.upTo)
    BY <1>1, LenProperties DEF Answered
  <2> DEFINE rows == SeenIn(events, a.to.filter, a.upTo)
             most == SeenIn(events, a.to.filter, Len(events))
  <2>9. /\ \A e \in rows : e # 0
        /\ rows \in SUBSET most
    BY <1>1, <2>8, SeenIsThere
  <2>10. a.page.total = Cardinality(rows)
    BY <2>8 DEF PageOf
  <2> HIDE DEF rows, most
  <2>11. CASE a.to.first
    <3>1. /\ shown' = a.page.events /\ total' = a.page.total /\ next' = a.page.next
          /\ of' = a.to.filter /\ upTo' = a.upTo
      BY <2>1, <2>11 DEF Shows
    <3>2. 0 \notin rows
      BY <2>9
    <3>3. /\ a.page.events \in Seq(rows) /\ Sorted(events, a.page.events)
          /\ EndsAt(a.page.events, a.page.next)
          /\ Covers(events, a.page.events, a.page.next, rows)
      BY <2>7, <2>8, <2>11, <3>2 DEF PageOf, Covers, rows
    <3>4. a.page.events \in Seq(most)
      BY <2>9, <3>3, ListIn
    <3>5. a.page.total \in Nat /\ Len(a.page.events) <= a.page.total
      BY <1>1, <2>10, <3>3, NotTooLong DEF rows
    <3>6. Joins'
      BY <1>2, <2>7, <2>8, <3>1, <3>3, <3>4, <3>5 DEF Joins, rows, most
    <3>. QED BY <1>4, <1>5, <1>6, <2>4, <2>5, <3>6 DEF JournalInv
  <2>12. CASE ~a.to.first
    <3>1. /\ shown' = shown \o a.page.events /\ total' = a.page.total /\ next' = a.page.next
          /\ of' = of /\ upTo' = upTo /\ (unsure' <=> unsure)
      BY <2>1, <2>12 DEF Shows
    <3>2. CASE unsure
      BY <1>4, <1>5, <1>6, <2>4, <2>5, <3>1, <3>2 DEF JournalInv, Joins
    <3>3. CASE ~unsure
      <4>1. a.to.filter = of /\ a.to.before = next /\ next # 0
        BY <1>1, <1>8, <2>6, <2>12, <3>3 DEF GoesOn
      <4>2. upTo <= a.upTo /\ shown \in Seq(rows)
        BY <1>1, <1>8, <3>3, <4>1 DEF ComesAfter, rows
      <4>3. /\ upTo \in 0..Len(events)
            /\ Sorted(events, shown)
            /\ shown # <<>> /\ next = shown[Len(shown)]
            /\ Covers(events, shown, next, SeenIn(events, of, upTo))
        BY <1>1, <3>3, <4>1 DEF Joins, EndsAt
      <4>4. upTo \in Nat /\ a.upTo \in Nat
        BY <2>8, <4>3
      <4>5. /\ shown \in Seq(SeenIn(events, of, a.upTo))
            /\ PageOf(events, a.page, of, shown[Len(shown)], a.upTo)
            /\ Covers(events, shown, shown[Len(shown)], SeenIn(events, of, upTo))
            /\ rows = SeenIn(events, of, a.upTo)
        BY <2>8, <4>1, <4>2, <4>3 DEF rows
      <4> DEFINE all == shown \o a.page.events
      <4>6. all = shown \o a.page.events
        OBVIOUS
      <4> HIDE DEF all
      <4>7. /\ all \in Seq(SeenIn(events, of, a.upTo)) /\ Sorted(events, all)
            /\ EndsAt(all, a.page.next)
            /\ Covers(events, all, a.page.next, SeenIn(events, of, upTo))
        BY <1>1, <4>2, <4>3, <4>4, <4>5, <4>6, PagesGoOn
      <4>8. all \in Seq(most)
        BY <2>9, <4>5, <4>7, ListIn
      <4>9. a.page.total \in Nat /\ Len(all) <= a.page.total
        BY <1>1, <2>10, <4>5, <4>7, NotTooLong
      <4>10. shown' = all
        BY <3>1 DEF all
      <4>11. Joins'
        BY <1>2, <2>7, <3>1, <4>1, <4>3, <4>7, <4>8, <4>9, <4>10 DEF Joins, most
      <4>. QED BY <1>4, <1>5, <1>6, <2>4, <2>5, <4>11 DEF JournalInv
    <3>. QED BY <3>2, <3>3
  <2>. QED BY <2>11, <2>12
<1>. QED BY <1>7, <1>8

\* A failure leaves what is shown; under another filter than it is of, it is no longer sure.
LEMMA FailsStep ==
    ASSUME JournalInv, NEW r \in requests, Fails(r)
    PROVE  JournalInv'
<1>1. /\ events \in Seq(Event) /\ stamp \in Nat \ {0}
      /\ LatestIsOne /\ GoesOn /\ Answered /\ ComesAfter /\ Joins
  BY DEF JournalInv, JournalTypes
<1>2. /\ requests' = requests \ {r}
      /\ UNCHANGED <<events, filter, stamp, answers, shown, total, next, of, upTo>>
  BY DEF Fails, Ignored
<1>3. unsure => unsure'
  BY DEF Fails, Ignored
<1>4. Pending' \subseteq Pending
  BY <1>2 DEF Pending
<1>5. JournalTypes'
  BY <1>1, <1>2 DEF JournalTypes
<1>6. LatestIsOne'
  <2>1. \A q \in Pending' :
           /\ q.stamp \in 1..stamp
           /\ q.first => q.before = 0
           /\ q.stamp = stamp => q.filter = filter
    BY <1>1, <1>4 DEF LatestIsOne
  <2>2. \A q \in requests' : q.stamp = stamp =>
            /\ \A s \in requests' : s.stamp = stamp => s = q
            /\ \A b \in answers' : b.to.stamp # stamp
    BY <1>1, <1>2 DEF LatestIsOne
  <2>3. \A b, c \in answers' : b.to.stamp = stamp /\ c.to.stamp = stamp => b = c
    BY <1>1, <1>2 DEF LatestIsOne
  <2>. QED BY <1>2, <2>1, <2>2, <2>3 DEF LatestIsOne
<1>7. GoesOn'
  BY <1>1, <1>2, <1>3, <1>4 DEF GoesOn
<1>8. Answered'
  BY <1>1, <1>2 DEF Answered
<1>9. ComesAfter'
  BY <1>1, <1>2, <1>3 DEF ComesAfter
<1>10. Joins'
  <2>1. CASE unsure'
    BY <2>1 DEF Joins
  <2>2. CASE ~unsure'
    <3>1. ~unsure
      BY <1>3, <2>2
    <3>2. ~busy' => of = filter
      <4>1. CASE r.stamp = stamp
        <5>1. r \in Pending
          BY DEF Pending
        <5>2. r.filter = of
          BY <2>2, <4>1 DEF Fails
        <5>. QED BY <1>1, <4>1, <5>1, <5>2 DEF LatestIsOne
      <4>2. CASE r.stamp # stamp
        <5>1. busy' = busy
          BY <4>2 DEF Fails, Ignored
        <5>. QED BY <1>1, <3>1, <5>1 DEF Joins
      <4>. QED BY <4>1, <4>2
    <3>. QED BY <1>1, <1>2, <3>1, <3>2 DEF Joins
  <2>. QED BY <2>1, <2>2
<1>. QED BY <1>5, <1>6, <1>7, <1>8, <1>9, <1>10 DEF JournalInv

LEMMA InitJournal == JournalInit => JournalInv
<1> SUFFICES ASSUME JournalInit PROVE JournalInv
  OBVIOUS
<1> DEFINE it == [stamp |-> 1, filter |-> Everything, first |-> TRUE, before |-> 0]
<1>1. events \in Seq(Event)
  <2>1. PICK n \in 0..1 : events \in [1..n -> Event]
    BY DEF JournalInit
  <2>2. \A m \in Nat : [1..m -> Event] \subseteq Seq(Event)
    BY SMT
  <2>. QED BY <2>1, <2>2
<1>2. /\ filter = Everything /\ stamp = 1 /\ requests = {it} /\ answers = {} /\ unsure = TRUE
  BY DEF JournalInit
<1>3. /\ it.stamp = 1 /\ it.filter = Everything /\ it.first = TRUE /\ it.before = 0
  OBVIOUS
<1> HIDE DEF it
<1>4. Pending = {it}
  BY <1>2 DEF Pending
<1>5. LatestIsOne
  BY <1>2, <1>3, <1>4 DEF LatestIsOne
<1>. QED BY <1>1, <1>2, <1>5 DEF JournalInv, JournalTypes, GoesOn, Answered, ComesAfter, Joins

LEMMA JournalStep == JournalInv /\ [JournalNext]_journalVars => JournalInv'
<1> SUFFICES ASSUME JournalInv, [JournalNext]_journalVars PROVE JournalInv'
  OBVIOUS
<1>1. ASSUME NEW x \in Event, Record(x) PROVE JournalInv'
  BY <1>1, RecordStep
<1>2. ASSUME NEW r \in requests, Answer(r) PROVE JournalInv'
  BY <1>2, AnswerStep
<1>3. ASSUME NEW r \in requests, Fails(r) PROVE JournalInv'
  BY <1>3, FailsStep
<1>4. ASSUME NEW f \in Filters, Choose(f) PROVE JournalInv'
  <2>1. Load(filter', TRUE)
    BY <1>4 DEF Choose
  <2>. QED BY <2>1, LoadStep
<1>5. ASSUME Refresh PROVE JournalInv'
  <2>1. Load(filter', TRUE)
    BY <1>5 DEF Refresh
  <2>. QED BY <2>1, LoadStep
<1>6. ASSUME More PROVE JournalInv'
  <2>1. Load(filter', FALSE) /\ ~busy /\ next # 0 /\ filter' = filter
    BY <1>6 DEF More
  <2>. QED BY <2>1, LoadStep
<1>7. ASSUME NEW a \in answers, Arrives(a) PROVE JournalInv'
  BY <1>7, ArrivesStep
<1>8. ASSUME UNCHANGED journalVars PROVE JournalInv'
  <2>1. UNCHANGED <<events, filter, shown, next, total, stamp, busy, requests, answers, of, upTo,
                    unsure>>
    BY <1>8 DEF journalVars
  <2>2. Joins'
    BY <2>1, JoinsStays DEF JournalInv
  <2>. QED BY <2>1, <2>2 DEF JournalInv, JournalTypes, LatestIsOne, Pending, GoesOn, Answered,
                             ComesAfter
<1>. QED BY <1>1, <1>2, <1>3, <1>4, <1>5, <1>6, <1>7, <1>8 DEF JournalNext

LEMMA JournalGood == JournalInv => PagesJoin
<1> SUFFICES ASSUME JournalInv, ~unsure PROVE PagesJoin
  BY DEF PagesJoin
<1> DEFINE seen == SeenIn(events, of, Len(events))
<1>1. /\ events \in Seq(Event) /\ Len(events) \in Nat /\ DOMAIN events = 1..Len(events)
      /\ Joins
  BY LenProperties DEF JournalInv, JournalTypes
<1>2. /\ ~busy => of = filter
      /\ upTo \in 0..Len(events)
      /\ shown \in Seq(seen) /\ Sorted(events, shown)
      /\ Covers(events, shown, next, SeenIn(events, of, upTo))
      /\ Len(shown) <= total
  BY <1>1 DEF Joins
<1>3. seen = Matching(of)
  BY <1>1, BehindOrders
<1> HIDE DEF seen
<1>4. /\ DOMAIN shown = 1..Len(shown) /\ Len(shown) \in Nat
      /\ \A i \in 1..Len(shown) : shown[i] \in seen
  <2>1. DOMAIN shown = 1..Len(shown) /\ Len(shown) \in Nat /\ shown \in [1..Len(shown) -> seen]
    BY <1>2, LenProperties
  <2>. QED BY <2>1
<1>5. \A i, j \in DOMAIN shown : i < j => Later(shown[i], shown[j])
  BY <1>2, <1>4 DEF Sorted, Later, LaterIn
<1>6. Range(shown) \subseteq Matching(of)
  BY <1>3, <1>4 DEF Range
<1>7. ASSUME NEW e \in Matching(of) \cap 1..upTo,
             next = 0 \/ (shown # <<>> /\ ~Later(Last(shown), e))
      PROVE  e \in Range(shown)
  <2>1. e \in SeenIn(events, of, upTo)
    BY <1>1 DEF SeenIn, Matching
  <2>2. Reaches(events, shown, next, e)
    BY <1>7 DEF Reaches, Later, LaterIn, Last
  <2>3. PICK i \in 1..Len(shown) : shown[i] = e
    BY <1>2, <2>1, <2>2 DEF Covers, Has
  <2>. QED BY <1>4, <2>3 DEF Range
<1>. QED BY <1>2, <1>5, <1>6, <1>7 DEF PagesJoin

\* Whatever is chosen while answers are under way and whatever is recorded between two
\* pages, the list shown is of the filter chosen, in order, without an event twice and
\* without a gap in what had happened when its first page was listed.
THEOREM PagesAlwaysJoin == JournalSpec => []PagesJoin
<1>1. JournalInit => JournalInv
  BY InitJournal
<1>2. JournalInv /\ [JournalNext]_journalVars => JournalInv'
  BY JournalStep
<1>3. JournalInv => PagesJoin
  BY JournalGood
<1>. QED BY <1>1, <1>2, <1>3, PTL DEF JournalSpec

=============================================================================
