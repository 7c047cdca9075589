------------------------------- MODULE Revocation -------------------------------
(***************************************************************************)
(* Revoking capability tokens: the shared stores of                        *)
(* packages/capkit/src/revocation-store.ts, the routes of server.ts that   *)
(* issue and revoke, and the guard of middleware.ts, which every service   *)
(* puts before its routes.                                                 *)
(*                                                                         *)
(* The services ask through stores of their own over one table or one      *)
(* file, whichever the environment names; capkit's replicas write.  The guard *)
(* checks the token, awaits the store, and checks the token again: between *)
(* the two, time passes and other processes go on, but not its own.  A     *)
(* method of a store has no await inside.                                  *)
(*                                                                         *)
(* A token always has a valid signature.  Scopes, audiences, the admin key *)
(* and the store in memory, which no two processes share, are left out.    *)
(* The file can always be read; a line is written whole or not at all.     *)
(***************************************************************************)
EXTENDS Integers, Sequences, FiniteSetsExt

CONSTANTS Services,   \* the processes whose routes are guarded
          Stores,     \* which of "sqlite" and "file" a deployment may use
          Writers,    \* store -> the replicas of capkit in such a deployment
          Tokens,     \* token ids
          Lifetimes,  \* what expiresIn may be
          Hold,       \* how long a revocation by id alone is held: 30 days
          MaxTime,    \* bound: how far the clock goes
          MaxRevocations, \* bound: how often a revocation is written
          MaxFaults   \* bound: how many crashes and failing reads

ASSUME StoresAssumption == /\ Stores \subseteq {"sqlite", "file"}
                           /\ Writers \in [Stores -> SUBSET Services]
ASSUME SpansAssumption == /\ Lifetimes \subseteq Nat \ {0}
                          /\ Hold \in Nat \ {0}
ASSUME BoundsAssumption == {MaxTime, MaxRevocations, MaxFaults} \subseteq Nat

VARIABLES
  store,     \* revocationStoreFromEnv()
  now,       \* the clock, in seconds
  expires,   \* token -> its exp, of the tokens issued
  table,     \* table revocations: token -> expires_at
  file,      \* the lines of the revocation file
  index,     \* service -> FileRevocationStore.index
  lastSize,  \* service -> FileRevocationStore.lastSize, in lines
  guard,     \* service -> the request its guard is busy with, or has answered
  acked,     \* tokens whose revocation was answered with 200 (not stored)
  ends,      \* token -> the earliest end it was revoked until (not stored)
  overlooked,\* service -> the tokens of lines it took for read (not stored)
  written,   \* how often a revocation was written
  faults     \* how often something went wrong

stored == <<table, file, index, lastSize>>
noted == <<ends, overlooked>>
vars == <<store, now, expires, stored, guard, acked, noted, written, faults>>

Capkits == Writers[store]

Issued == DOMAIN expires

\* `barred`: the service had to know the token revoked when the guard asked.
Request(at, t, revoked, barred) ==
  [at |-> at, token |-> t, revoked |-> revoked, barred |-> barred]

Idle == Request("idle", "none", FALSE, FALSE)

\* A service that is not waiting for its store runs its other handlers.
Waiting(s) == guard[s].at = "asked"

\* verifyJwt(): an issued token is valid through the second it expires in.
Valid(t) == t \in Issued /\ now <= expires[t]

Put(map, t, exp) == [u \in DOMAIN map \cup {t} |-> IF u = t THEN exp ELSE map[u]]

Without(map, tokens) == [t \in DOMAIN map \ tokens |-> map[t]]

\* What prune() removes, and what isRevoked() takes for expired.
Stale(map) == {t \in DOMAIN map : map[t] > 0 /\ map[t] < now}

\* Mutant of Live: the second a revocation expires in is not its own.
LiveBefore(map) == {t \in DOMAIN map : map[t] = 0 \/ map[t] > now}

\* The tokens that isRevoked() takes for revoked.
Live(map) == {t \in DOMAIN map : map[t] = 0 \/ map[t] >= now}

-----------------------------------------------------------------------------
(* FileRevocationStore                                                     *)

LinesOf(t) == {n \in DOMAIN file : file[n].token = t}

\* The map a reading of the file makes: the last line of a token counts.
ReadFile == [t \in {file[n].token : n \in DOMAIN file} |-> file[Max(LinesOf(t))].exp]

\* Mutant of Refreshed: the file is read once.
RefreshedOnce(s) == index[s]

\* refresh(): the file is read again only when its size has changed.
Refreshed(s) == IF Len(file) = lastSize[s] THEN index[s] ELSE ReadFile

\* The tokens of the lines a service has not read, and of those it never will,
\* once it has been asked: a reading of the file is a reading of all of it.
Unread(s) == {file[n].token : n \in (lastSize[s] + 1)..Len(file)}
Missed(s) == IF Len(file) = lastSize[s] THEN overlooked[s] ELSE {}

\* Mutant of Opened: the first request reads the file.
OpenedUnread == [index |-> << >>, size |-> -1]

\* The constructor reads the file.
Opened == [index |-> ReadFile, size |-> Len(file)]

\* What isRevoked() looks the token up in.
Known(s) == IF store = "sqlite" THEN table ELSE Refreshed(s)

\* isRevoked(t), asked by service s.
RevokedAt(s, t) == t \in Live(Known(s))

-----------------------------------------------------------------------------
Init == /\ store \in Stores
        /\ now = 0
        /\ expires = << >>
        /\ table = << >>
        /\ file = << >>
        /\ index = [s \in Services |-> << >>]
        /\ lastSize = [s \in Services |-> 0]
        /\ guard = [s \in Services |-> Idle]
        /\ acked = {}
        /\ ends = << >>
        /\ overlooked = [s \in Services |-> {}]
        /\ written = 0
        /\ faults = 0

-----------------------------------------------------------------------------
(* capkit's routes and timer.                                              *)

\* POST /auth/token and POST /issue, in create(): an id that was never used.
Issue(t, lifetime) ==
  /\ t \notin Issued
  /\ \E c \in Capkits : ~Waiting(c)
  /\ expires' = Put(expires, t, now + lifetime)
  /\ UNCHANGED <<store, now, stored, guard, acked, noted, written, faults>>

Sooner(t, exp) == IF t \in DOMAIN ends /\ ends[t] <= exp THEN ends[t] ELSE exp

\* revoke() of the stores: an upsert, or a line appended.
Write(t, exp) ==
  /\ written < MaxRevocations
  /\ written' = written + 1
  /\ ends' = Put(ends, t, Sooner(t, exp))
  /\ IF store = "sqlite"
     THEN table' = Put(table, t, exp) /\ UNCHANGED file
     ELSE file' = Append(file, [token |-> t, exp |-> exp]) /\ UNCHANGED table

\* What a replica remembers of its own line: the file as it is now is taken for
\* read, with whatever lines another replica has appended before.
Remember(c, t, exp) ==
  IF store = "sqlite"
  THEN UNCHANGED <<index, lastSize, overlooked>>
  ELSE /\ index' = [index EXCEPT ![c] = Put(index[c], t, exp)]
       /\ lastSize' = [lastSize EXCEPT ![c] = Len(file) + 1]
       /\ overlooked' = [overlooked EXCEPT ![c] = (overlooked[c] \cup Unread(c)) \ {t}]

\* The end that POST /auth/token/revoke gives a revocation: the token's own, of
\* one that still verifies, or thirty days for an id alone.  An id that no token
\* has would change nothing.
Ends(t) == IF Valid(t) THEN {expires[t], now + Hold} ELSE {now + Hold}

RevokeRoute(c, t, exp) ==
  /\ c \in Capkits /\ ~Waiting(c)
  /\ t \in Issued /\ exp \in Ends(t)
  /\ Write(t, exp)
  /\ UNCHANGED <<store, now, expires>>

Revoke(c, t) ==
  \E exp \in Ends(t) : /\ RevokeRoute(c, t, exp)
                       /\ Remember(c, t, exp)
                       /\ acked' = acked \cup {t}
                       /\ UNCHANGED <<guard, faults>>

\* prune(), which capkit runs every hour.
Prune(c) ==
  /\ c \in Capkits /\ ~Waiting(c)
  /\ IF store = "sqlite"
     THEN table' = Without(table, Stale(table)) /\ UNCHANGED index
     ELSE index' = [index EXCEPT ![c] = Without(index[c], Stale(index[c]))] /\ UNCHANGED table
  /\ UNCHANGED <<store, now, expires, file, lastSize, guard, acked, noted, written, faults>>

-----------------------------------------------------------------------------
(* capabilityGuard()                                                       *)

\* Every revocation of the token that was written is still in force.
InForce(t) == t \in DOMAIN ends /\ now <= ends[t]

\* Its revocation was answered, is in force, and the service has read of it.
Barred(s, t) == t \in acked /\ InForce(t) /\ t \notin Missed(s)

\* The token verifies and isRevoked() is called; its answer is awaited.
Ask(s, t) ==
  /\ ~Waiting(s)
  /\ Valid(t)
  /\ guard' = [guard EXCEPT ![s] = Request("asked", t, RevokedAt(s, t), Barred(s, t))]
  /\ IF store = "file"
     THEN /\ index' = [index EXCEPT ![s] = Without(Known(s), {t} \ Live(Known(s)))]
          /\ lastSize' = [lastSize EXCEPT ![s] = Len(file)]
     ELSE UNCHANGED <<index, lastSize>>
  /\ overlooked' = [overlooked EXCEPT ![s] = Missed(s)]
  /\ UNCHANGED <<store, now, expires, table, file, acked, ends, written, faults>>

Answer(s, verdict) ==
  /\ Waiting(s)
  /\ guard' = [guard EXCEPT ![s] =
                 Request(verdict, guard[s].token, guard[s].revoked, guard[s].barred)]
  /\ UNCHANGED <<store, now, expires, stored, acked, noted, written>>

\* Mutant of Admit: the token is not validated again.
AdmitOnPeek(s) == ~guard[s].revoked /\ Answer(s, "admitted") /\ UNCHANGED faults

\* The token is validated again, and the answer counts with it.
Admit(s) ==
  /\ Valid(guard[s].token) /\ ~guard[s].revoked
  /\ Answer(s, "admitted")
  /\ UNCHANGED faults

Refuse(s) ==
  /\ ~Valid(guard[s].token) \/ guard[s].revoked
  /\ Answer(s, "refused")
  /\ UNCHANGED faults

\* isRevoked() rejects, which only the table can make it do: 503.
Unavailable(s) ==
  /\ store = "sqlite"
  /\ faults < MaxFaults
  /\ faults' = faults + 1
  /\ Answer(s, "refused")

-----------------------------------------------------------------------------
(* Time and faults.                                                        *)

Tick == /\ now < MaxTime
        /\ now' = now + 1
        /\ UNCHANGED <<store, expires, stored, guard, acked, noted, written, faults>>

Crash == faults < MaxFaults /\ faults' = faults + 1

Started(s, opened) ==
  /\ guard' = [guard EXCEPT ![s] = Idle]
  /\ index' = [index EXCEPT ![s] = opened.index]
  /\ lastSize' = [lastSize EXCEPT ![s] = opened.size]
  /\ overlooked' = [overlooked EXCEPT ![s] = {}]

\* A process stops and starts, for whatever reason; a revoke() that throws is
\* an unhandled rejection, and stops it too.
Restart(s) ==
  /\ Crash
  /\ Started(s, Opened)
  /\ UNCHANGED <<store, now, expires, table, file, acked, ends, written>>

\* capkit stops after the write and before the answer, and starts.
RevokeUnanswered(c, t) ==
  \E exp \in Ends(t) : /\ Crash
                       /\ RevokeRoute(c, t, exp)
                       /\ Started(c, Opened')
                       /\ UNCHANGED acked

Next ==
  \/ \E t \in Tokens : \/ \E l \in Lifetimes : Issue(t, l)
                       \/ \E s \in Services : \/ Revoke(s, t) \/ RevokeUnanswered(s, t)
                                              \/ Ask(s, t)
  \/ \E s \in Services : Prune(s) \/ Admit(s) \/ Refuse(s) \/ Unavailable(s) \/ Restart(s)
  \/ Tick

Spec == Init /\ [][Next]_vars

-----------------------------------------------------------------------------
(* Properties.                                                             *)

TokenMap(map) == DOMAIN map \subseteq Issued /\ \A t \in DOMAIN map : map[t] \in Nat

\* The state has its type: only issued tokens are ever listed, and no service
\* has read more of the file than there is.
TypeOK ==
  /\ store \in Stores
  /\ now \in 0..MaxTime
  /\ Issued \subseteq Tokens /\ TokenMap(expires)
  /\ TokenMap(table)
  /\ file \in Seq([token : Tokens, exp : Nat])
  /\ \A n \in DOMAIN file : file[n].token \in Issued
  /\ DOMAIN index = Services /\ \A s \in Services : TokenMap(index[s])
  /\ lastSize \in [Services -> 0..Len(file)]
  /\ guard \in [Services -> [at : {"idle", "asked", "admitted", "refused"},
                             token : Tokens \cup {"none"},
                             revoked : BOOLEAN, barred : BOOLEAN]]
  /\ acked \subseteq Issued
  /\ TokenMap(ends) /\ overlooked \in [Services -> SUBSET Issued]
  /\ written \in 0..MaxRevocations /\ faults \in 0..MaxFaults

\* Once a revocation has been answered, no service admits the token again until
\* the earliest second it was ever revoked until: its own expiry, or thirty days
\* where it was revoked by id alone, which a token of a longer life outlives.
\* Which store it is, what is pruned, revoked again or restarted changes nothing;
\* one thing does, and this allows for it: a capkit that wrote to the file has
\* taken the lines of another for read, and knows nothing of their tokens until
\* it reads the file again (revoke, isRevoked, prune, capabilityGuard).
RevokedStaysRefused ==
  \A s \in Services : guard[s].at = "admitted" => ~guard[s].barred

\* All services give one answer about a token that was never revoked, or whose
\* revocations are all in force, whatever each of them remembers of the file, but
\* for those that took a line about it for read (refresh, isRevoked, revoke).
ServicesAgree ==
  \A t \in Tokens, s1, s2 \in Services :
    /\ t \in DOMAIN ends => InForce(t)
    /\ t \notin Missed(s1) \cup Missed(s2)
    => (RevokedAt(s1, t) <=> RevokedAt(s2, t))

\* A guard admits nobody on what it saw before its await: the token is still
\* valid when the request goes through (the second validate of capabilityGuard).
AdmittedInTime ==
  [][\A s \in Services : (guard[s].at = "asked" /\ guard'[s].at = "admitted")
       => now <= expires[guard[s].token]]_vars
===============================================================================
