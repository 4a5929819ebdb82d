------------------------------- MODULE Tokens -------------------------------
(***************************************************************************)
(* The tokens the server signs and what it accepts of them, under the      *)
(* strict policy every deployment uses.  A keyset is a record of the       *)
(* current key, the previous key or None, and the time the previous key    *)
(* signed last.  Only tokens that some replica issued are considered, so a *)
(* signature is the key it was made with.                                  *)
(***************************************************************************)
EXTENDS Naturals

CONSTANTS
  None,
  MaxAccessTTL,
  MaxSkew,
  TTL          \* the configured lifetime of each type of token

ASSUME TokensAssumption ==
  /\ MaxAccessTTL \in Nat \ {0} /\ MaxSkew \in Nat
  /\ TTL \in [{"access", "mfa_pending", "sudo", "verify-email"} -> Nat \ {0}]
  /\ TTL["access"] <= MaxAccessTTL                  \* identityPolicy

FinnAudience == "finnapigo-api"
JakeAudience == "jakeai-service"

\* Mutant: the drain forgets the leeway that Verify grants.
KeyDrainTTL == MaxAccessTTL

KeyDrain == MaxAccessTTL + MaxSkew

Keyset(current, previous, last) == [current |-> current, previous |-> previous, last |-> last]

\* NewConfiguredJWTManager, at a replica's clock.
Accepted(keys, clock) ==
  keys.previous # None => keys.previous # keys.current /\ keys.last <= clock

baseClaims(keys, clock, jti, user, tenant, type) ==
  [type |-> type, jti |-> jti, user |-> user, tenant |-> tenant, key |-> keys.current,
   iat |-> clock, exp |-> clock + TTL[type], ver |-> 0, epoch |-> 0, sid |-> 0, perms |-> {},
   aud |-> {}]

\* Purpose tokens: mfa_pending, sudo, verify-email and the like.
Issue(keys, clock, jti, user, tenant, type) ==
  [baseClaims(keys, clock, jti, user, tenant, type) EXCEPT !.aud = {type}]

IssueAccessV1(keys, clock, jti, user, tenant, ver, epoch, sid, perms) ==
  [baseClaims(keys, clock, jti, user, tenant, "access") EXCEPT
     !.ver = ver, !.epoch = epoch, !.sid = sid, !.perms = perms,
     !.aud = {FinnAudience} \cup IF "chat:read" \in perms THEN {JakeAudience} ELSE {}]

validateAccess(t, clock, audience) ==
  /\ t.type = "access"
  /\ t.exp > t.iat /\ t.exp <= t.iat + MaxAccessTTL
  /\ t.iat <= clock + MaxSkew /\ clock < t.exp + MaxSkew
  /\ {FinnAudience, audience} \subseteq t.aud /\ t.aud \subseteq {FinnAudience, JakeAudience}

\* The key the kid selects: the previous one only until it is drained.
KeyKnown(keys, clock, kid) ==
  \/ kid = keys.current
  \/ kid = keys.previous /\ clock < keys.last + KeyDrain

parse(t, clock) ==
  /\ t.iat <= clock + MaxSkew /\ clock < t.exp + MaxSkew
  /\ IF t.type = "access" THEN validateAccess(t, clock, FinnAudience) ELSE t.aud = {t.type}

Verify(keys, clock, t) == KeyKnown(keys, clock, t.key) /\ parse(t, clock)

VerifyAccessV1(keys, clock, t, audience) ==
  Verify(keys, clock, t) /\ validateAccess(t, clock, audience)
=============================================================================
