------------------------------- MODULE ApiKeys ------------------------------
(***************************************************************************)
(* Who gets in: API keys, their rotation, revocation, expiry and bootstrap *)
(* (src/cmdboss/security.py, src/cmdboss/routers/system.py), bearer        *)
(* tokens, and the rate limiter a request meets once it is authenticated.  *)
(*                                                                         *)
(* Members of Req are requests that present credentials to one worker;     *)
(* members of Admin are requests that mint, rotate or revoke a key; members*)
(* of Boot are workers that start.  A secret is never minted twice: it is  *)
(* named after the request that minted it, and so is a key after the       *)
(* request or the start that inserted it.  The configured bootstrap secret *)
(* is Configured.  What a token proves is its issuer's affair: here it is  *)
(* good until it ends.                                                     *)
(***************************************************************************)
EXTENDS RateLimit, Sequences

CONSTANTS Req, Admin, Boot,
          Configured,  \* bootstrap_admin_key
          Token,       \* bearer tokens; each is its own principal
          TokenEnds,   \* TokenEnds[t]: when t expires
          Modes,       \* the schemes auth_mode allows: "api_key", "jwt" or both
          Ttls,        \* the lifetimes given to new keys
          Throttle,    \* auth_last_used_throttle_seconds
          MaxTime,     \* bound on the clock
          None

Secret == Admin \cup {Configured}
Key == Admin \cup Boot
Never == MaxTime + 1
Record == [secret : Secret, active : BOOLEAN, expires : Nat, last : Nat \cup {None}]

ASSUME KeysAssumption ==
  /\ Configured \notin Admin /\ Admin \cap Boot = {} /\ Token \cap (Admin \cup Boot) = {}
  /\ None \notin Secret \cup Token \cup Key /\ None \notin Record
  /\ MaxTime \in Nat /\ Throttle \in Nat /\ Ttls \subseteq Nat \ {0}
  /\ TokenEnds \in [Token -> Nat]
  /\ Modes \subseteq {"api_key", "jwt"} /\ Modes # {}

VARIABLES
  keys,     \* keys[k]: the record of k in _api_keys, or None
  now,      \* the time, on every clock
  pc,       \* pc[r]: the next step of request r
  cred,     \* cred[r]: the key secret and the token r presents
  dead,     \* dead[r]: had its secret (not Configured) stopped working when r was sent
  doc,      \* doc[r]: the key and record find_one returned
  resp,     \* resp[r]: the answer, or which credential admitted r
  apc,      \* apc[a]: the next step of an admin request or a start
  aim,      \* aim[a]: the key it rotates
  buckets,  \* the limiter of the worker
  hits,     \* hits[p]: every hit of principal p, with its outcome
  retired   \* the secrets that have worked and stopped working

vars == <<keys, now, pc, cred, dead, doc, resp, apc, aim, buckets, hits, retired>>

Principal == Key \cup Token
Nothing == [secret |-> None, token |-> None]

Init ==
  /\ keys = [k \in Key |-> None] /\ now = 0
  /\ pc = [r \in Req |-> "idle"]
  /\ cred = [r \in Req |-> Nothing]
  /\ dead = [r \in Req |-> FALSE]
  /\ doc = [r \in Req |-> None]
  /\ resp = [r \in Req |-> "none"]
  /\ apc = [a \in Key |-> "idle"] /\ aim = [a \in Key |-> None]
  /\ buckets = NoBuckets /\ hits = [p \in Principal |-> <<>>]
  /\ retired = {}

Existing == {k \in Key : keys[k] # None}
Works(s) == \E k \in Existing : keys[k].secret = s /\ keys[k].active /\ now < keys[k].expires

(* History: the secrets that stop working in this step.                    *)
Retire == retired' = retired \cup {s \in Secret : Works(s) /\ ~Works(s)'}

Requests == <<pc, cred, dead, doc, resp>>
Admins == <<apc, aim>>
Limiter == <<buckets, hits>>

(***************************************************************************)
(* authenticate, and then the limiter.                                     *)
(***************************************************************************)
(* A client presents a secret that it once was given, a token, or both.    *)
Begin(r) ==
  /\ pc[r] = "idle"
  /\ \E s \in {keys[k].secret : k \in Existing} \cup retired \cup {None},
        t \in Token \cup {None} :
       /\ <<s, t>> # <<None, None>>
       /\ cred' = [cred EXCEPT ![r] = [secret |-> s, token |-> t]]
       /\ dead' = [dead EXCEPT ![r] = s \in retired \ {Configured}]
       /\ pc' = [pc EXCEPT ![r] = IF s # None /\ "api_key" \in Modes THEN "find" ELSE "token"]
  /\ UNCHANGED <<keys, now, doc, resp, Admins, Limiter, retired>>

Answer(r, a) ==
  /\ resp' = [resp EXCEPT ![r] = a]
  /\ pc' = [pc EXCEPT ![r] = "done"]
  /\ doc' = [doc EXCEPT ![r] = None]
  /\ cred' = [cred EXCEPT ![r] = Nothing]

(* limiter.check for principal p, without an await.                        *)
Hit(r, p, by) ==
  LET c == Check(buckets, p, now)
  IN  /\ buckets' = c.buckets
      /\ hits' = [hits EXCEPT ![p] =
           Append(@, [at |-> now, ok |-> c.allowed, retryAfter |-> c.retryAfter])]
      /\ Answer(r, IF c.allowed THEN by ELSE "limited")

(* No key: the token, if there is one and the mode has tokens.             *)
Proves(t) == t # None /\ "jwt" \in Modes /\ now < TokenEnds[t]

Bearer(r) ==
  \/ Proves(cred[r].token) /\ Hit(r, cred[r].token, "token")
  \/ ~Proves(cred[r].token) /\ Answer(r, "unauthorized") /\ UNCHANGED Limiter

TokenOnly(r) ==
  /\ pc[r] = "token" /\ Bearer(r)
  /\ UNCHANGED <<keys, now, dead, Admins, retired>>

(* Fault: keys are found whatever their status.                            *)
MatchesAny(s) == {k \in Existing : keys[k].secret = s}

(* find_one({"key_hash": ..., "active": True})                             *)
Matches(s) == {k \in Existing : keys[k].secret = s /\ keys[k].active}

Find(r) ==
  /\ pc[r] = "find"
  /\ \/ /\ Matches(cred[r].secret) = {}
        /\ Bearer(r)
     \/ /\ \E k \in Matches(cred[r].secret) :
             doc' = [doc EXCEPT ![r] = [key |-> k, rec |-> keys[k]]]
        /\ pc' = [pc EXCEPT ![r] = "check"]
        /\ UNCHANGED <<cred, resp, Limiter>>
  /\ UNCHANGED <<keys, now, dead, Admins, retired>>

(* The coroutine resumes with the record: expiry, and is last_used_at old. *)
UsedLately(rec) == rec.last # None /\ now - rec.last < Throttle

CheckRecord(r) ==
  /\ pc[r] = "check"
  /\ LET rec == doc[r].rec IN
       \/ rec.expires <= now /\ Bearer(r)
       \/ /\ rec.expires > now /\ ~UsedLately(rec)
          /\ pc' = [pc EXCEPT ![r] = "touch"] /\ UNCHANGED <<cred, doc, resp, Limiter>>
       \/ /\ rec.expires > now /\ UsedLately(rec)
          /\ Hit(r, doc[r].key, "key")
  /\ UNCHANGED <<keys, now, dead, Admins, retired>>

(* Fault: the record is written back as a whole.                           *)
TouchWhole(r) ==
  /\ pc[r] = "touch"
  /\ keys' = [keys EXCEPT ![doc[r].key] = [doc[r].rec EXCEPT !.last = now]]
  /\ Hit(r, doc[r].key, "key")
  /\ UNCHANGED <<now, dead, Admins>> /\ Retire

(* update_one of last_used_at, by _id.                                     *)
Touch(r) ==
  /\ pc[r] = "touch"
  /\ keys' = [keys EXCEPT ![doc[r].key].last = now]
  /\ Hit(r, doc[r].key, "key")
  /\ UNCHANGED <<now, dead, Admins>> /\ Retire

(* Either query raises.                                                    *)
Raise(r) ==
  /\ pc[r] \in {"find", "touch"} /\ Answer(r, "error")
  /\ UNCHANGED <<keys, now, dead, Admins, Limiter, retired>>

(***************************************************************************)
(* The life of keys.                                                       *)
(***************************************************************************)
AGoto(a, step) == apc' = [apc EXCEPT ![a] = step]
NewRecord(s, expires) == [secret |-> s, active |-> TRUE, expires |-> expires, last |-> None]

(* create_api_key.                                                         *)
Create(a) ==
  /\ a \in Admin /\ apc[a] = "idle"
  /\ \E end \in {Never} \cup {now + ttl : ttl \in Ttls} :
       keys' = [keys EXCEPT ![a] = NewRecord(a, end)]
  /\ AGoto(a, "done")
  /\ UNCHANGED <<now, Requests, aim, Limiter>> /\ Retire

(* rotate_api_key: find_one of an active key, or 404.                      *)
RotateFind(a, k) ==
  /\ a \in Admin /\ apc[a] = "idle" /\ k \in Existing
  /\ IF keys[k].active THEN AGoto(a, "rotate") ELSE AGoto(a, "done")
  /\ aim' = [aim EXCEPT ![a] = k]
  /\ UNCHANGED <<keys, now, Requests, Limiter, retired>>

(* Fault: the update activates the key again.                              *)
RotateSetActive(a) ==
  /\ apc[a] = "rotate"
  /\ keys' = [keys EXCEPT ![aim[a]].secret = a, ![aim[a]].active = TRUE]
  /\ AGoto(a, "done")
  /\ UNCHANGED <<now, Requests, aim, Limiter>> /\ Retire

(* The new secret, by _id alone: the key may have been revoked meanwhile.  *)
RotateSet(a) ==
  /\ apc[a] = "rotate"
  /\ keys' = [keys EXCEPT ![aim[a]].secret = a]
  /\ AGoto(a, "done")
  /\ UNCHANGED <<now, Requests, aim, Limiter>> /\ Retire

(* revoke_api_key.                                                         *)
Revoke(a, k) ==
  /\ a \in Admin /\ apc[a] = "idle" /\ k \in Existing /\ keys[k].active
  /\ keys' = [keys EXCEPT ![k].active = FALSE]
  /\ AGoto(a, "done")
  /\ UNCHANGED <<now, Requests, aim, Limiter>> /\ Retire

(* ensure_bootstrap_admin, when a worker starts: count_documents.          *)
BootCount(b) ==
  /\ b \in Boot /\ apc[b] = "idle"
  /\ IF \E k \in Existing : keys[k].active THEN AGoto(b, "done") ELSE AGoto(b, "insert")
  /\ UNCHANGED <<keys, now, Requests, aim, Limiter, retired>>

(* insert_one under the unique key_hash: a duplicate, of a revoked record  *)
(* too, is taken for another worker's and ignored.                         *)
BootInsert(b) ==
  /\ apc[b] = "insert"
  /\ IF \E k \in Existing : keys[k].secret = Configured
       THEN UNCHANGED keys
       ELSE keys' = [keys EXCEPT ![b] = NewRecord(Configured, Never)]
  /\ AGoto(b, "done")
  /\ UNCHANGED <<now, Requests, aim, Limiter>> /\ Retire

Tick ==
  /\ now < MaxTime /\ now' = now + 1
  /\ UNCHANGED <<keys, Requests, Admins, Limiter>>
  /\ Retire

Next ==
  \/ \E r \in Req :
       Begin(r) \/ TokenOnly(r) \/ Find(r) \/ CheckRecord(r) \/ Touch(r) \/ Raise(r)
  \/ \E a \in Key :
       \/ Create(a) \/ RotateSet(a) \/ BootCount(a) \/ BootInsert(a)
       \/ \E k \in Key : RotateFind(a, k) \/ Revoke(a, k)
  \/ Tick

Spec == Init /\ [][Next]_vars

(***************************************************************************)
(* Properties.                                                             *)
(***************************************************************************)
TypeOK ==
  /\ keys \in [Key -> Record \cup {None}] /\ now \in 0..MaxTime
  /\ pc \in [Req -> {"idle", "token", "find", "check", "touch", "done"}]
  /\ cred \in [Req -> [secret : Secret \cup {None}, token : Token \cup {None}]]
  /\ dead \in [Req -> BOOLEAN]
  /\ doc \in [Req -> [key : Key, rec : Record] \cup {None}]
  /\ resp \in [Req -> {"none", "unauthorized", "limited", "key", "token", "error"}]
  /\ apc \in [Key -> {"idle", "rotate", "insert", "done"}] /\ aim \in [Key -> Key \cup {None}]
  /\ retired \subseteq Secret

(* A secret that was rotated away, revoked or has expired never works      *)
(* again, nor a key that was revoked, whatever rotations, revocations,     *)
(* starts and requests are under way at that moment.  (But the configured  *)
(* secret may be installed again.)                                         *)
RetiredStaysRetired ==
  [][/\ \A s \in retired \ {Configured} : ~Works(s)'
     /\ \A k \in Existing : ~keys[k].active => ~keys'[k].active]_vars

(* A request sent after its secret stopped working is not admitted by it.  *)
(* (One that was under way may be.)                                        *)
OnlyLiveSecrets ==
  \A r \in Req : resp[r] = "key" => ~dead[r]

(* The limiter's promise to the service: in no stretch of one window's     *)
(* length are more than 2 * Limit - 1 requests admitted under one key,     *)
(* however often its secret changes: a window begins with a hit, so that   *)
(* such a stretch never holds all of two windows.                          *)
RateBounded ==
  \A p \in Principal : \A from \in 0..MaxTime :
    Cardinality({i \in DOMAIN hits[p] :
      hits[p][i].ok /\ hits[p][i].at \in from..(from + Window - 1)}) <= 2 * Limit - 1

(* The limiter's promise to the client: who waits for the time he was told *)
(* is admitted, if nobody else used the key in between.                    *)
RetryAfterIsHonest ==
  \A p \in Principal : \A i \in DOMAIN hits[p] :
    i > 1 /\ ~hits[p][i - 1].ok /\ hits[p][i].at >= hits[p][i - 1].at + hits[p][i - 1].retryAfter
      => hits[p][i].ok
=============================================================================
