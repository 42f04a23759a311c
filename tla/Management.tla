----------------------------- MODULE Management -----------------------------
(***************************************************************************)
(* The management surface: the gates every REST and MCP request passes     *)
(* (concurrency, rate, authentication, scopes, CSRF), the verifier the two *)
(* adapters share, the table of browser sessions, and the hooks by which a *)
(* configuration change reaches the verifier once the control lock is      *)
(* released (internal/control/rest, internal/control/mcp, internal/auth).  *)
(*                                                                         *)
(* A compiled identity stands for mode, secrets, roles and scopes: a       *)
(* record of a secret and the scopes its holder has, secret None in the    *)
(* mode that trusts the loopback.  What a handler does to flows or         *)
(* configuration is modelled elsewhere; here it reads, or installs another *)
(* identity.                                                               *)
(***************************************************************************)
EXTENDS Integers, Sequences, FiniteSets, TLC

CONSTANTS
  Requests,       \* management requests under way
  Identities,     \* the identities a configuration may name
  First,          \* the one the process starts with
  None,
  MaxConcurrent,  \* slots of the inflight channel
  Rate, Burst,    \* requests per tick and per burst of one source
  IdleFor,        \* ticks after which an idle bucket is forgotten
  Idle, Absolute, \* life of a session without and with use
  MaxSessions,    \* sessions the table holds
  MaxCookie,      \* bound: cookies issued
  MaxChange,      \* bound: configuration changes
  MaxPassed,      \* bound: requests the limiters let pass
  MaxTime         \* bound: clock

\* A token bucket.
Buckets == [tokens : 0 .. Burst, last : Nat]

ASSUME ManagementConstants ==
  /\ First \in Identities
  /\ \A i \in Identities : i.scopes \subseteq {"read", "admin"}
  /\ None \notin Buckets /\ {Rate, IdleFor} \subseteq Nat
  /\ IdleFor * Rate >= Burst      \* 4 * burst / rate seconds in evictIdleLocked
  /\ {MaxConcurrent, Burst, MaxSessions} \subseteq Nat \ {0}

VARIABLES
  spec,      \* management.auth of the active snapshot
  ver,       \* the verifier: identity and generation
  sess,      \* sessions by cookie
  req,       \* the requests
  bucket,    \* per adapter, its limiter's bucket of the one source, or None
  passed,    \* per adapter, the requests its limiter has let pass
  open,      \* the listener
  now, issued, changes,
  recent,    \* identities configured since no change was under way
  failed     \* a secret file could not be read since then

vars == <<spec, ver, sess, req, bucket, passed, open, now, issued, changes, recent, failed>>

Doors == {"rest", "mcp"}

NoReq == [pc |-> "idle", cap |-> "health", cookie |-> 0, secret |-> None,
          csrf |-> "none", prin |-> None, hooks |-> << >>, next |-> None, changed |-> FALSE]

Init ==
  /\ spec = First /\ ver = [id |-> First, gen |-> 0]
  /\ sess = << >> /\ req = [r \in Requests |-> NoReq]
  /\ bucket = [d \in Doors |-> None] /\ passed = [d \in Doors |-> 0] /\ open = TRUE
  /\ now = 0 /\ issued = 0 /\ changes = 0
  /\ recent = {First} /\ failed = FALSE

Unsafe(cap) == cap \in {"write", "login", "logout"}

Inflight == Cardinality({r \in Requests : req[r].pc # "idle"})

-----------------------------------------------------------------------------
(* Gates.                                                                  *)

ForgottenEarly(b) == b = None \/ now >= b.last

\* evictIdleLocked: a bucket nobody has used for IdleFor is forgotten, and the
\* next request starts with a full one.
EvictIdle(b) == b = None \/ now - b.last > IdleFor

\* allow: refill for the time gone, up to burst; then take one.
Refilled(b) ==
  IF EvictIdle(b) THEN Burst
  ELSE LET t == b.tokens + (now - b.last) * Rate IN IF t > Burst THEN Burst ELSE t

Allow(d) ==
  /\ Refilled(bucket[d]) >= 1 /\ passed["rest"] + passed["mcp"] < MaxPassed
  /\ bucket' = [bucket EXCEPT ![d] = [tokens |-> Refilled(@) - 1, last |-> now]]
  /\ passed' = [passed EXCEPT ![d] = @ + 1]

Secrets == {None} \cup {i.secret : i \in Identities}

Admitted(r) == req[r].pc = "idle" /\ open /\ Inflight < MaxConcurrent

Enter(r, q) ==
  /\ req' = [req EXCEPT ![r] = q]
  /\ UNCHANGED <<spec, ver, sess, open, now, issued, changes, recent, failed>>

\* A REST request arrives: the origin is acceptable, a slot is free, and (health
\* probes apart) the limiter lets it pass.  A header wins over a cookie.
Arrive(r, cap, s, c, csrf) ==
  /\ Admitted(r)
  /\ s = None \/ c = 0
  /\ csrf # "none" => c # 0 /\ Unsafe(cap)
  /\ \/ cap = "health" /\ s = None /\ c = 0 /\ UNCHANGED <<bucket, passed>>
     \/ cap # "health" /\ Allow("rest")
  /\ Enter(r, [NoReq EXCEPT !.pc = "auth", !.cap = cap, !.secret = s,
                             !.cookie = c, !.csrf = csrf])

\* POST /mcp is mounted behind REST's slots; it has a limiter of its own and
\* knows no cookies.
ArriveMCP(r, cap, s) ==
  /\ Admitted(r)
  /\ Allow("mcp")
  /\ Enter(r, [NoReq EXCEPT !.pc = "auth", !.cap = cap, !.secret = s])

\* Over the rate: the answer is 429, but the bucket is refilled and stamped.
RateLimited(d) ==
  /\ open /\ Refilled(bucket[d]) < 1
  /\ bucket' = [bucket EXCEPT ![d] = [tokens |-> Refilled(@), last |-> now]]
  /\ UNCHANGED <<spec, ver, sess, req, passed, open, now, issued, changes, recent, failed>>

\* Shutdown: no new request; those under way go on.
Shutdown ==
  /\ open /\ open' = FALSE
  /\ UNCHANGED <<spec, ver, sess, req, bucket, passed, now, issued, changes, recent, failed>>

Tick ==
  /\ now < MaxTime /\ now' = now + 1
  /\ UNCHANGED <<spec, ver, sess, req, bucket, passed, open, issued, changes, recent, failed>>

-----------------------------------------------------------------------------
(* Sessions.                                                               *)

Expired(s) == now - s.seen > Idle \/ now - s.made > Absolute
Revoked(s) == s.gen # ver.gen
Usable(c) == c \in DOMAIN sess /\ ~Revoked(sess[c]) /\ ~Expired(sess[c])
Dropped(C) == [c \in DOMAIN sess \ C |-> sess[c]]

\* Lookup touches a usable session and deletes a dead one.
Lookup(c) == IF Usable(c) THEN [sess EXCEPT ![c].seen = now] ELSE Dropped({c})

\* expireLocked, then evictOldestLocked when the table is full.
Expiring == {c \in DOMAIN sess : Expired(sess[c])}
OldestOf(C) == {CHOOSE c \in C : \A d \in C : sess[c].seen <= sess[d].seen}
MadeRoom ==
  LET kept == DOMAIN sess \ Expiring IN
  Dropped(Expiring \cup (IF Cardinality(kept) >= MaxSessions THEN OldestOf(kept) ELSE {}))

-----------------------------------------------------------------------------
(* Who is asking, and whether he may.                                      *)

Principal(i, g) == [scopes |-> i.scopes, gen |-> g, id |-> i]

\* Verifier.Authenticate: the bearer token, or the loopback when the mode trusts it.
Bearer(s) == IF s = ver.id.secret THEN Principal(ver.id, ver.gen) ELSE None

Done(r) == req' = [req EXCEPT ![r] = NoReq]

\* authenticate: bearer first; then a cookie, which is touched; then whatever the
\* mode says of a request without credentials.  A stale cookie is deleted.
Authenticate(r) ==
  LET c == req[r].cookie
      p == IF req[r].cap = "health" THEN [scopes |-> {}, gen |-> 0, id |-> First]
           ELSE IF Usable(c) THEN Principal(sess[c].id, sess[c].gen)
           ELSE Bearer(req[r].secret)
  IN
  /\ req[r].pc = "auth"
  /\ sess' = Lookup(c)
  /\ IF p = None THEN Done(r)
     ELSE req' = [req EXCEPT ![r].pc = "authorize", ![r].prin = p, ![r].secret = None]
  /\ UNCHANGED <<spec, ver, bucket, passed, open, now, issued, changes, recent, failed>>

Required(cap) == CASE cap = "read" -> "read" [] cap = "write" -> "admin" [] OTHER -> "none"
HasScope(p, s) == s = "none" \/ s \in p.scopes \/ "admin" \in p.scopes

\* authorize: the capability's scope; for a mutation with a cookie, the session's
\* CSRF secret, looked up again.
Authorize(r) ==
  LET c == req[r].cookie
      scoped == HasScope(req[r].prin, Required(req[r].cap))
      guarded == scoped /\ Unsafe(req[r].cap) /\ c # 0
  IN
  /\ req[r].pc = "authorize"
  /\ IF scoped /\ (guarded => Usable(c) /\ req[r].csrf = "right")
     THEN req' = [req EXCEPT ![r].pc = "handle"]
     ELSE Done(r)
  /\ sess' = IF guarded /\ req[r].csrf # "none" /\ ~Usable(c) THEN Dropped({c}) ELSE sess
  /\ UNCHANGED <<spec, ver, bucket, passed, open, now, issued, changes, recent, failed>>

-----------------------------------------------------------------------------
(* Handlers.                                                               *)

\* What only reads, probes included.
Read(r) ==
  /\ req[r].pc = "handle" /\ req[r].cap \in {"health", "read"}
  /\ Done(r)
  /\ UNCHANGED <<spec, ver, sess, bucket, passed, open, now, issued, changes, recent, failed>>

\* handleSessionGet looks the cookie up, and touches it, a second time.
SessionGet(r) ==
  /\ req[r].pc = "handle" /\ req[r].cap = "session"
  /\ sess' = Lookup(req[r].cookie)
  /\ Done(r)
  /\ UNCHANGED <<spec, ver, bucket, passed, open, now, issued, changes, recent, failed>>

\* handleSessionCreate: Create refuses a principal of an older generation.
Login(r) ==
  /\ req[r].pc = "handle" /\ req[r].cap = "login" /\ issued < MaxCookie
  /\ IF req[r].prin.gen = ver.gen
     THEN /\ issued' = issued + 1
          /\ sess' = [c \in DOMAIN MadeRoom \cup {issued'} |->
                        IF c = issued' THEN [id |-> req[r].prin.id, gen |-> req[r].prin.gen,
                                             made |-> now, seen |-> now]
                        ELSE MadeRoom[c]]
     ELSE UNCHANGED <<issued, sess>>
  /\ Done(r)
  /\ UNCHANGED <<spec, ver, bucket, passed, open, now, changes, recent, failed>>

Logout(r) ==
  /\ req[r].pc = "handle" /\ req[r].cap = "logout"
  /\ sess' = Dropped({req[r].cookie})
  /\ Done(r)
  /\ UNCHANGED <<spec, ver, bucket, passed, open, now, issued, changes, recent, failed>>

\* MCP is constructed, and so registers its hook, before REST.
Hooks == <<"mcp", "rest">>

InHooks(r) == req[r].pc \in {"reload", "compare", "replace", "clear", "clearAgain"}
Quiet == ~\E r \in Requests : InHooks(r)

\* Apply or Reset under the control lock; the hooks, MCP's first, run after it is
\* released, in this request's goroutine.
Change(r) ==
  /\ req[r].pc = "handle" /\ req[r].cap = "write" /\ changes < MaxChange
  /\ changes' = changes + 1
  /\ \E i \in Identities :
       /\ spec' = i
       /\ recent' = IF Quiet THEN {i} ELSE recent \cup {i}
  /\ failed' = (failed /\ ~Quiet)
  /\ req' = [req EXCEPT ![r].pc = "reload", ![r].hooks = Hooks]
  /\ UNCHANGED <<ver, sess, bucket, passed, open, now, issued>>

\* A refused change: a conflict, an invalid document.
ChangeRefused(r) ==
  /\ req[r].pc = "handle" /\ req[r].cap = "write"
  /\ Done(r)
  /\ UNCHANGED <<spec, ver, sess, bucket, passed, open, now, issued, changes, recent, failed>>

-----------------------------------------------------------------------------
(* reloadAuth, of each adapter.                                            *)

NextHook(r) ==
  req' = [req EXCEPT ![r] =
    IF Len(req[r].hooks) = 1 THEN NoReq
    ELSE [req[r] EXCEPT !.pc = "reload", !.hooks = Tail(req[r].hooks),
                        !.next = None, !.changed = FALSE]]

\* The active snapshot is read and compiled.
Reload(r) ==
  /\ req[r].pc = "reload"
  /\ req' = [req EXCEPT ![r].next = spec,
               ![r].pc = IF Head(req[r].hooks) = "rest" THEN "compare" ELSE "replace"]
  /\ UNCHANGED <<spec, ver, sess, bucket, passed, open, now, issued, changes, recent, failed>>

\* A secret file is missing or too short: the previous verifier stays.
ReloadFails(r) ==
  /\ req[r].pc = "reload"
  /\ NextHook(r)
  /\ failed' = TRUE
  /\ UNCHANGED <<spec, ver, sess, bucket, passed, open, now, issued, changes, recent>>

\* REST asks whether the verifier is Equivalent before it replaces it.
Compare(r) ==
  /\ req[r].pc = "compare"
  /\ req' = [req EXCEPT ![r].pc = "replace", ![r].changed = ver.id # req[r].next]
  /\ UNCHANGED <<spec, ver, sess, bucket, passed, open, now, issued, changes, recent, failed>>

SameSecret(a, b) == a.secret = b.secret

\* identitiesEqual: mode, token digests, roles and scopes.
SameIdentity(a, b) == a = b

InstallRotated(i) == IF ver.id.secret = i.secret THEN ver.id ELSE i

\* The tokens Replace installs.
Installed(i) == i

\* Verifier.Replace: identity and generation move in one critical section; the
\* identity hooks run after it.
Replace(r) ==
  LET changed == ~SameIdentity(ver.id, req[r].next) IN
  /\ req[r].pc = "replace"
  /\ ver' = [id |-> Installed(req[r].next), gen |-> IF changed THEN ver.gen + 1 ELSE ver.gen]
  /\ IF changed THEN req' = [req EXCEPT ![r].pc = "clear"]
     ELSE IF req[r].changed THEN req' = [req EXCEPT ![r].pc = "clearAgain"]
     ELSE NextHook(r)
  /\ UNCHANGED <<spec, sess, bucket, passed, open, now, issued, changes, recent, failed>>

\* Store.Clear, by the identity hook and once more by REST itself.
ClearSessions(r) ==
  /\ req[r].pc \in {"clear", "clearAgain"}
  /\ sess' = << >>
  /\ IF req[r].pc = "clear" /\ req[r].changed THEN req' = [req EXCEPT ![r].pc = "clearAgain"]
     ELSE NextHook(r)
  /\ UNCHANGED <<spec, ver, bucket, passed, open, now, issued, changes, recent, failed>>

-----------------------------------------------------------------------------
Next ==
  \/ \E r \in Requests :
       \/ \E cap \in {"health", "read", "write", "session", "login", "logout"}, s \in Secrets,
             c \in 0 .. issued, csrf \in {"none", "wrong", "right"} : Arrive(r, cap, s, c, csrf)
       \/ \E cap \in {"read", "write"}, s \in Secrets : ArriveMCP(r, cap, s)
       \/ Authenticate(r) \/ Authorize(r)
       \/ Read(r) \/ SessionGet(r) \/ Login(r) \/ Logout(r) \/ Change(r) \/ ChangeRefused(r)
       \/ Reload(r) \/ ReloadFails(r) \/ Compare(r) \/ Replace(r) \/ ClearSessions(r)
  \/ (\E d \in Doors : RateLimited(d)) \/ Shutdown \/ Tick

Spec == Init /\ [][Next]_vars

-----------------------------------------------------------------------------
\* A session that Lookup would accept carries the role and scopes the verifier
\* grants now, whatever rotations and logins interleave, even before the table has
\* been cleared; and the table keeps to its size (Replace, Create, revokedLocked).
SessionsAreCurrent ==
  /\ \A c \in DOMAIN sess : Usable(c) => sess[c].id = ver.id
  /\ Cardinality(DOMAIN sess) <= MaxSessions

\* Once the hooks of all changes have returned, and no secret file failed to be
\* read, the verifier holds an identity that was configured since the last time
\* no change was under way: a change is never simply lost (reloadAuth).
VerifierKeepsUp == Quiet /\ ~failed => ver.id \in recent

\* Since the start no adapter has let a source make more requests than its burst
\* and its rate allow, however refills, refusals and the forgetting of idle
\* buckets fall together (allow, evictIdleLocked).
RateHeld == \A d \in Doors : passed[d] <= Burst + Rate * now
=============================================================================
