----------------------------- MODULE WebSession -----------------------------
(***************************************************************************)
(* The browser's session with the web app: the cookies that hold it        *)
(* (lib/bff/cookies.ts), the web server's handlers that read, refresh and  *)
(* clear it (lib/bff/session.ts, lib/bff/sign-in.ts, the routes under      *)
(* app/api/auth and app/api/proxy), the page that reacts to a refusal      *)
(* (lib/auth.tsx), and the API's session store (internal/sessions), which  *)
(* rotates a refresh token on every use and ends a session whose retired   *)
(* token comes back after the grace window.                                *)
(*                                                                         *)
(* A request captures the cookies when it is sent and answers Set-Cookie   *)
(* when it lands, so two requests' cookies can land in the other order.    *)
(* A refresh is shared by the requests of one server process (an isolate)  *)
(* and raced by those of another.                                          *)
(***************************************************************************)
EXTENDS Naturals, FiniteSets

CONSTANTS
    Slots,       \* the browser's requests in flight at once
    Isolates,    \* the web server's processes
    Sessions,    \* the API's sessions
    First,       \* the session the browser starts with
    None,        \* no cookie, no token
    Kinds,       \* what the person does: "api", "me", "exchange", "logout", "impersonate", "stop"
    MaxWalk,     \* successors a retired token is followed through
    MaxSends,    \* bound: requests the person starts
    MaxLost,     \* bound: calls and answers lost
    MaxWaits,    \* bound: times an access token's life passes
    MaxSecrets   \* bound: times the API's signing secret changes

ASSUME WebSessionAssumption ==
    /\ First \in Sessions
    /\ None \notin Sessions \X Nat
    /\ Kinds \subseteq {"api", "me", "exchange", "logout", "impersonate", "stop"}
    /\ {MaxWalk, MaxSends, MaxLost, MaxWaits, MaxSecrets} \subseteq Nat

VARIABLES
    jar,      \* the browser's cookies
    req,      \* each slot's request, from its capture of the cookies to its answer
    shared,   \* the isolates' refreshes: in flight, or answered within SHARE_MS
    srv,      \* the API's sessions
    clock,    \* the access tokens' age and the signing secret
    left,     \* what remains of the bounds
    seen      \* history: whether the browser missed a rotation, whether an answer
              \* landed out of order, sessions said to be signed out

vars == <<jar, req, shared, srv, clock, left, seen>>

Names == {"access", "refresh", "original"}

(* A refresh token is its session and its generation; an access token says *)
(* whose it is (the session's own, or the one of someone impersonated).    *)
Refresh == Sessions \X Nat
Access == [s : Sessions, own : BOOLEAN, age : Nat, secret : Nat]
Minted(s, own) == [s |-> s, own |-> own, age |-> clock.age, secret |-> clock.secret]

Usable(a) == a # None /\ a.age = clock.age
Accepted(a) == Usable(a) /\ a.secret = clock.secret

(* The Set-Cookie values of an answer, in order: the later one wins.       *)
Plus(sets, more) ==
    [n \in DOMAIN sets \cup DOMAIN more |-> IF n \in DOMAIN more THEN more[n] ELSE sets[n]]
NoCookies == [n \in {} |-> None]
sessionCookies(a, t) == [access |-> a, refresh |-> t]
clearedSessionCookies == [n \in Names |-> None]

Idle == [kind |-> None, pc |-> "idle", iso |-> None, access |-> None, refresh |-> None,
         original |-> None, came |-> None, sets |-> NoCookies, status |-> None]

(***************************************************************************)
(* The API's session store                                                 *)
(***************************************************************************)
Live(s) == srv[s].state = "live"
Current(t) == t[2] = srv[t[1]].gen

(* Mutant: the grace window is gone, a retired token is always a reuse.    *)
NoGrace(t) == FALSE

InGrace(t) == t[2] >= srv[t[1]].fresh /\ srv[t[1]].gen - t[2] <= MaxWalk

(* Store.Refresh: the current token rotates; a retired one within the      *)
(* grace window is answered with the current one; after it, the session is *)
(* over for whoever holds it.                                              *)
Rotates(t) == Live(t[1]) /\ Current(t)
Replays(t) == Live(t[1]) /\ t[2] < srv[t[1]].gen /\ InGrace(t)
Reused(t) == Live(t[1]) /\ t[2] < srv[t[1]].gen /\ ~InGrace(t)

Refreshed(t) ==
    LET s == srv[t[1]]
    IN  [srv EXCEPT ![t[1]] = [s EXCEPT !.gen = IF Rotates(t) THEN s.gen + 1 ELSE s.gen,
                                        !.state = IF Reused(t) THEN "reuse" ELSE s.state]]

(* Mutant: a replay mints a token of its own instead of the current one.   *)
NextTokenMinted(t) == <<t[1], srv[t[1]].gen + 1>>
NextToken(t) == <<t[1], IF Rotates(t) THEN t[2] + 1 ELSE srv[t[1]].gen>>

(* Store.RevokeToken and Store.Revoke: a refresh token ends its session,   *)
(* retired or not; an access token the one it names, unless it is an       *)
(* impersonation's.                                                        *)
(* Mutant: only the current token signs its session out, not a retired one. *)
EndedByCurrent(t, a) ==
    {s \in Sessions : /\ Live(s)
                      /\ \/ t # None /\ t[1] = s /\ Current(t)
                         \/ t = None /\ a # None /\ Accepted(a) /\ a.own /\ a.s = s}
EndedBy(t, a) ==
    {s \in Sessions : /\ Live(s)
                      /\ \/ t # None /\ t[1] = s
                         \/ t = None /\ a # None /\ Accepted(a) /\ a.own /\ a.s = s}

SignedOut(ss) == [s \in Sessions |-> IF s \in ss THEN [srv[s] EXCEPT !.state = "signed_out"] ELSE srv[s]]

(***************************************************************************)
(* lib/bff/session.ts                                                      *)
(***************************************************************************)
readSession(kind, iso, cookies) ==
    [Idle EXCEPT !.kind = kind, !.iso = iso, !.access = cookies.access, !.refresh = cookies.refresh,
                 !.original = cookies.original, !.came = cookies.refresh]

endSession(r) ==
    [r EXCEPT !.access = None, !.refresh = None, !.sets = Plus(@, clearedSessionCookies)]

Answer(r, status) == [r EXCEPT !.pc = "answer", !.status = status]

(* What each handler does once it has, or will not get, an access token.   *)
AfterEnsure(r) ==
    CASE r.kind = "impersonate" -> [r EXCEPT !.pc = "impersonate"]
      [] OTHER -> [r EXCEPT !.pc = "send"]

(* A handler without an access token: the proxy asks the API all the same, *)
(* /me answers 401 and clears the cookies unless the operator's own        *)
(* session waits behind an impersonation, impersonating is refused.        *)
Without(r) ==
    CASE r.kind = "api" -> [r EXCEPT !.pc = "send"]
      [] r.kind = "impersonate" -> Answer(r, "401")
      [] r.kind \in {"me", "login"} /\ r.original # None -> [Answer(r, "expired") EXCEPT !.sets = NoCookies]
      [] OTHER -> Answer(endSession(r), "401")

(* The refused token's answer, when the refresh gave no other: /me clears  *)
(* the cookies unless an operator's session waits; the proxy passes the    *)
(* 401 on.                                                                 *)
Refused(r) ==
    IF r.kind \in {"me", "login"} /\ r.original = None THEN Answer(endSession(r), "401") ELSE Answer(r, "401")

(* ensureAccess's outcome reaches a request: the first one, or the forced  *)
(* one after the API refused the token.                                    *)
(* Mutant: the forced refresh's tokens are used, and not put on the answer. *)
GotUnsaved(r, a, t) ==
    LET s == [r EXCEPT !.access = a, !.refresh = t]
    IN  IF r.pc = "again" THEN [s EXCEPT !.pc = "resend"]
        ELSE AfterEnsure([s EXCEPT !.sets = Plus(@, sessionCookies(a, t))])
Got(r, a, t) ==
    LET s == [r EXCEPT !.access = a, !.refresh = t, !.sets = Plus(@, sessionCookies(a, t))]
    IN  IF r.pc = "again" THEN [s EXCEPT !.pc = "resend"] ELSE AfterEnsure(s)

GotEnded(r) == IF r.pc = "again" THEN Refused(endSession(r)) ELSE Without(endSession(r))

GotNothing(r) ==
    IF r.pc = "again" THEN Refused(r)
    ELSE CASE r.kind = "impersonate" -> Answer(r, "401")
           [] r.kind # "impersonate" /\ r.access = None -> [Answer(r, "502") EXCEPT !.sets = NoCookies]
           [] OTHER -> AfterEnsure(r)

Waiting(e) == {q \in Slots : req[q].pc \in {"refresh", "again"} /\ req[q].iso = e.iso /\ req[q].refresh = e.token}

(* refreshTokens: one call for each token and isolate; a request that      *)
(* comes while it is in flight, or within SHARE_MS of it, shares it.       *)
EntryOf(r, entries) == {e \in entries : e.iso = r.iso /\ e.token = r.refresh}

Joined(r, pc, entries) ==
    LET w == [r EXCEPT !.pc = pc]
        e == CHOOSE x \in EntryOf(r, entries) : TRUE
    IN  IF EntryOf(r, entries) = {} \/ e.state = "flying" THEN w
        ELSE IF e.state = "ok" THEN Got(w, e.access, e.next) ELSE GotEnded(w)

Opened(r, entries) ==
    IF EntryOf(r, entries) # {} THEN entries
    ELSE entries \cup {[iso |-> r.iso, token |-> r.refresh, state |-> "flying", access |-> None, next |-> None]}

(* ensureAccess, until it has to wait: whether it needs a refresh at all.  *)
Needs(r) == ~Usable(r.access) /\ r.refresh # None
Ensured(r, entries) ==
    CASE Usable(r.access) /\ (r.kind # "impersonate" \/ r.refresh # None) -> AfterEnsure(r)
      [] Needs(r) -> Joined(r, "refresh", entries)
      [] ~Needs(r) /\ r.access # None /\ r.kind # "impersonate" -> AfterEnsure(r)
      [] OTHER -> Without(r)

(***************************************************************************)
(* A request is sent                                                       *)
(***************************************************************************)
(* DELETE /api/auth/impersonate answers at once, from the cookies alone.   *)
Stopped(r) ==
    Answer([r EXCEPT !.sets = Plus([access |-> None, original |-> None],
                                   IF r.original # None THEN [refresh |-> r.original] ELSE NoCookies)], "ok")

Begin(r, entries) ==
    CASE r.kind = "exchange" -> [r EXCEPT !.pc = "trade"]
      [] r.kind = "logout" -> [r EXCEPT !.pc = "revoke"]
      [] r.kind = "stop" -> Stopped(r)
      [] OTHER -> Ensured(r, entries)

Handled(r) == r.kind \in {"api", "me", "login", "impersonate"}

Send(q, kind, iso) ==
    LET r == readSession(kind, iso, jar)
    IN  /\ req[q] = Idle
        /\ left.sends > 0
        /\ kind = "impersonate" => jar.original = None
        /\ kind = "stop" => jar.original # None
        /\ req' = [req EXCEPT ![q] = Begin(r, shared)]
        /\ shared' = IF Handled(r) /\ Needs(r) THEN Opened(r, shared) ELSE shared
        /\ left' = [left EXCEPT !.sends = @ - 1]
        /\ UNCHANGED <<jar, srv, clock, seen>>

(***************************************************************************)
(* The calls to the API                                                    *)
(***************************************************************************)
(* A refresh's call is served and answered: everyone waiting for it goes   *)
(* on, and the answer is shared with those who come after.                 *)
RefreshServed(e) ==
    LET ok == Rotates(e.token) \/ Replays(e.token)
        a == Minted(e.token[1], TRUE)
        t == NextToken(e.token)
    IN  /\ e.state = "flying"
        /\ srv' = Refreshed(e.token)
        /\ shared' = (shared \ {e}) \cup
               {IF ok THEN [e EXCEPT !.state = "ok", !.access = a, !.next = t] ELSE [e EXCEPT !.state = "ended"]}
        /\ req' = [q \in Slots |-> IF q \notin Waiting(e) THEN req[q]
                                   ELSE IF ok THEN Got(req[q], a, t) ELSE GotEnded(req[q])]
        /\ UNCHANGED <<jar, clock, left, seen>>

(* The call, or its answer, is lost: "unavailable", the cookies stay, and  *)
(* the next request may try again at once.                                 *)
RefreshLost(e) ==
    /\ e.state = "flying"
    /\ left.lost > 0
    /\ srv' \in {srv, Refreshed(e.token)}
    /\ shared' = shared \ {e}
    /\ req' = [q \in Slots |-> IF q \in Waiting(e) THEN GotNothing(req[q]) ELSE req[q]]
    /\ left' = [left EXCEPT !.lost = @ - 1]
    /\ seen' = [seen EXCEPT !.lost = @ \/ srv' # srv]
    /\ UNCHANGED <<jar, clock>>

(* SHARE_MS after the call began.                                          *)
ShareEnds(e) ==
    /\ e.state # "flying"
    /\ shared' = shared \ {e}
    /\ UNCHANGED <<jar, req, srv, clock, left, seen>>

(* The proxy's call, and /me's: a 401 is tried once more with a forced     *)
(* refresh, when there is a refresh token to force.                        *)
Sent(q) ==
    LET r == req[q]
        force == ~Accepted(r.access) /\ r.refresh # None
    IN  /\ r.pc = "send"
        /\ req' = [req EXCEPT ![q] = IF Accepted(r.access) THEN Answer(r, "ok")
                                     ELSE IF force THEN Joined(r, "again", shared)
                                     ELSE Refused(r)]
        /\ shared' = IF force THEN Opened(r, shared) ELSE shared
        /\ UNCHANGED <<jar, srv, clock, left, seen>>

(* The second try: still refused with a fresh token, the session is over.  *)
Resent(q) ==
    LET r == req[q]
    IN  /\ r.pc = "resend"
        /\ req' = [req EXCEPT ![q] = IF Accepted(r.access) THEN Answer(r, "ok")
                                     ELSE IF r.kind = "api" THEN Answer(endSession(r), "401")
                                     ELSE Refused(r)]
        /\ UNCHANGED <<jar, shared, srv, clock, left, seen>>

(* POST /api/auth/impersonate: the target's access token takes the access  *)
(* cookie, and the operator's refresh token waits aside.                   *)
Impersonated(q) ==
    LET r == req[q]
    IN  /\ r.pc = "impersonate"
        /\ req' = [req EXCEPT ![q] =
               IF Accepted(r.access)
               THEN Answer([r EXCEPT !.sets = Plus(@, [access |-> Minted(r.access.s, FALSE),
                                                       refresh |-> None, original |-> r.refresh])], "ok")
               ELSE Answer(r, "401")]
        /\ UNCHANGED <<jar, shared, srv, clock, left, seen>>

(* The call fails on the way: the answer carries no cookies at all.        *)
ImpersonateLost(q) ==
    LET r == req[q]
    IN  /\ r.pc = "impersonate"
        /\ left.lost > 0
        /\ req' = [req EXCEPT ![q] = [Answer(r, "502") EXCEPT !.sets = NoCookies]]
        /\ left' = [left EXCEPT !.lost = @ - 1]
        /\ seen' = [seen EXCEPT !.lost = @ \/ r.refresh # r.came]
        /\ UNCHANGED <<jar, shared, srv, clock>>

(* sessionFromCode: the code buys a new session; then the one the request  *)
(* came with is signed out, if it came with a refresh token.               *)
Traded(q, s) ==
    LET r == req[q]
        new == Plus(clearedSessionCookies, sessionCookies(Minted(s, TRUE), <<s, 0>>))
    IN  /\ r.pc = "trade"
        /\ srv[s].state = "none"
        /\ srv' = [srv EXCEPT ![s].state = "live"]
        /\ req' = [req EXCEPT ![q] = IF r.refresh # None THEN [r EXCEPT !.pc = "drop", !.sets = new]
                                     ELSE Answer([r EXCEPT !.sets = new], "ok")]
        /\ UNCHANGED <<jar, shared, clock, left, seen>>

(* The API signs the sessions out, or the call is lost: the answer is the  *)
(* same for a sign-in, and says so for a sign-out (revoked: false).        *)
Revocation(q, ss, said) ==
    \/ /\ srv' = SignedOut(ss)
       /\ seen' = [seen EXCEPT !.said = @ \cup said]
       /\ UNCHANGED left
    \/ /\ left.lost > 0
       /\ srv' \in {srv, SignedOut(ss)}
       /\ left' = [left EXCEPT !.lost = @ - 1]
       /\ UNCHANGED seen

Dropped(q) ==
    LET r == req[q]
    IN  /\ r.pc = "drop"
        /\ Revocation(q, EndedBy(r.refresh, None), {})
        /\ req' = [req EXCEPT ![q] = Answer(r, "ok")]
        /\ UNCHANGED <<jar, shared, clock>>

(* POST /api/auth/logout: the session and the operator's own one waiting.  *)
Revoked(q) ==
    LET r == req[q]
        named == {t[1] : t \in {r.refresh, r.original} \ {None}}
    IN  /\ r.pc = "revoke"
        /\ Revocation(q, EndedBy(r.refresh, r.access) \cup EndedBy(r.original, None), named)
        /\ req' = [req EXCEPT ![q] = Answer([r EXCEPT !.sets = clearedSessionCookies], "ok")]
        /\ UNCHANGED <<jar, shared, clock>>

(***************************************************************************)
(* The answer reaches the browser                                          *)
(***************************************************************************)
withCookies(sets) == [n \in Names |-> IF n \in DOMAIN sets THEN sets[n] ELSE jar[n]]

(* handleAuthFailure: stop impersonating when the marker says so, sign out *)
(* on the server otherwise.                                                *)
handleAuthFailure(cookies) ==
    Begin(readSession(IF cookies.original # None THEN "stop" ELSE "logout", None, cookies), {})

(* A 401 through the proxy signs the page out; a finished sign-in loads    *)
(* the profile, and a refused one signs out; an impersonation that expired *)
(* is stopped; any other 401 of /me only clears the page.                  *)
Next_(r, iso, cookies, entries) ==
    CASE r.kind = "exchange" -> Begin(readSession("login", iso, cookies), entries)
      [] r.kind \in {"api", "login"} /\ r.status = "401" -> handleAuthFailure(cookies)
      [] r.kind # "exchange" /\ r.status = "expired" -> handleAuthFailure(cookies)
      [] OTHER -> Idle

Carries(r, name) == name \in DOMAIN r.sets /\ r.sets[name] # None

(* The answer lands out of order: a token it carries was rotated in the    *)
(* meantime (a second press of Stop brings back what the first one did),   *)
(* or it is a refresh that crossed an impersonation's start.               *)
Crossing(r) ==
    \/ \E n \in {"refresh", "original"} : Carries(r, n) /\ ~Current(r.sets[n])
    \/ Handled(r) /\ Carries(r, "refresh") /\ jar.original # None

Land(q, iso) ==
    LET r == req[q]
        then == readSession("login", iso, withCookies(r.sets))
    IN  /\ r.pc = "answer"
        /\ jar' = withCookies(r.sets)
        /\ req' = [req EXCEPT ![q] = Next_(r, iso, jar', shared)]
        /\ shared' = IF r.kind = "exchange" /\ Needs(then) THEN Opened(then, shared) ELSE shared
        /\ seen' = [seen EXCEPT !.crossed = @ \/ Crossing(r)]
        /\ UNCHANGED <<srv, clock, left>>

(* The page is reloaded or closed: the browser keeps nothing of an answer  *)
(* it did not wait for.                                                    *)
Abandon(q) ==
    LET r == req[q]
    IN  /\ r.pc = "answer"
        /\ left.lost > 0
        /\ req' = [req EXCEPT ![q] = Idle]
        /\ left' = [left EXCEPT !.lost = @ - 1]
        /\ seen' = [seen EXCEPT !.lost = @ \/ r.refresh # r.came]
        /\ UNCHANGED <<jar, shared, srv, clock>>

(***************************************************************************)
(* Time, the signing secret and the sessions list                          *)
(***************************************************************************)
(* A request takes seconds: far less than the grace window, which is far   *)
(* less than an access token's life.                                       *)
Quiet == shared = {} /\ \A q \in Slots : req[q] = Idle

Stale == [s \in Sessions |-> [srv[s] EXCEPT !.fresh = srv[s].gen]]

GraceEnds ==
    /\ Quiet
    /\ Stale # srv
    /\ srv' = Stale
    /\ UNCHANGED <<jar, req, shared, clock, left, seen>>

AccessExpires ==
    /\ Quiet
    /\ left.waits > 0
    /\ srv' = Stale
    /\ clock' = [clock EXCEPT !.age = @ + 1]
    /\ left' = [left EXCEPT !.waits = @ - 1]
    /\ UNCHANGED <<jar, req, shared, seen>>

SecretChanges ==
    /\ left.secrets > 0
    /\ clock' = [clock EXCEPT !.secret = @ + 1]
    /\ left' = [left EXCEPT !.secrets = @ - 1]
    /\ UNCHANGED <<jar, req, shared, srv, seen>>

Fresh(live) == [s \in Sessions |-> [state |-> IF s \in live THEN "live" ELSE "none", gen |-> 0, fresh |-> 0]]

(* Signed in, with the access cookie or after it ran out; or signed out.   *)
Init ==
    /\ clock = [age |-> 0, secret |-> 0]
    /\ \/ /\ srv = Fresh({First})
          /\ \E a \in {None, Minted(First, TRUE)} : jar = [access |-> a, refresh |-> <<First, 0>>, original |-> None]
       \/ /\ srv = Fresh({})
          /\ jar = [n \in Names |-> None]
    /\ req = [q \in Slots |-> Idle]
    /\ shared = {}
    /\ left = [sends |-> MaxSends, lost |-> MaxLost, waits |-> MaxWaits, secrets |-> MaxSecrets]
    /\ seen = [lost |-> FALSE, crossed |-> FALSE, said |-> {}]

Next ==
    \/ \E q \in Slots, kind \in Kinds, iso \in Isolates : Send(q, kind, iso)
    \/ \E e \in shared : RefreshServed(e)
    \/ \E e \in shared : RefreshLost(e)
    \/ \E e \in shared : ShareEnds(e)
    \/ \E q \in Slots : Sent(q)
    \/ \E q \in Slots : Resent(q)
    \/ \E q \in Slots : Impersonated(q)
    \/ \E q \in Slots : ImpersonateLost(q)
    \/ \E q \in Slots, s \in Sessions : Traded(q, s)
    \/ \E q \in Slots : Dropped(q)
    \/ \E q \in Slots : Revoked(q)
    \/ \E q \in Slots, iso \in Isolates : Land(q, iso)
    \/ \E q \in Slots : Abandon(q)
    \/ GraceEnds
    \/ AccessExpires
    \/ SecretChanges

Spec == Init /\ [][Next]_vars

(***************************************************************************)
(* Properties                                                              *)
(***************************************************************************)
(* Every variable holds a value of its kind, and no token names a session  *)
(* the API never issued or a generation it never reached.                  *)
Issued(t) == t = None \/ (srv[t[1]].state # "none" /\ t[2] <= srv[t[1]].gen)

TypeOK ==
    /\ DOMAIN jar = Names
    /\ jar.access \in Access \cup {None}
    /\ {jar.refresh, jar.original} \subseteq Refresh \cup {None}
    /\ Issued(jar.refresh) /\ Issued(jar.original)
    /\ \A q \in Slots :
           /\ req[q].pc \in {"idle", "refresh", "again", "send", "resend", "impersonate", "trade", "drop",
                             "revoke", "answer"}
           /\ Issued(req[q].refresh)
           /\ DOMAIN req[q].sets \subseteq Names
           /\ Carries(req[q], "refresh") => Issued(req[q].sets.refresh)
    /\ \A e \in shared : Issued(e.token) /\ Issued(e.next)
    /\ \A s \in Sessions :
           /\ srv[s].state \in {"none", "live", "signed_out", "reuse"}
           /\ srv[s].gen \in Nat /\ srv[s].fresh \in 0..srv[s].gen
    /\ seen.said \subseteq Sessions

(* Refreshes that race in one process or in several never end the session: *)
(* it is ended for reuse only after a rotation the browser never received, *)
(* or an answer that landed out of order (session.ts: a race     *)
(* "is answered with the same next token by the API's grace window").      *)
ReuseNeedsLoss == (\E s \in Sessions : srv[s].state = "reuse") => seen.lost \/ seen.crossed

(* The browser's refresh token is one the API still takes, whatever order  *)
(* the answers that set it landed in, with the same two exceptions.        *)
JarRedeemable ==
    (jar.refresh # None /\ Live(jar.refresh[1])) => InGrace(jar.refresh) \/ seen.lost \/ seen.crossed

(* A sign-out that says the session is revoked has ended it, also when     *)
(* another process rotated its token in between.                           *)
SignedOutIsOver == \A s \in seen.said : srv[s].state \in {"signed_out", "reuse"}

(* Session.setCookies are "Set-Cookie values the response must carry": an  *)
(* answer of a request that refreshed the session carries the new token.   *)
CookiesCarried ==
    \A q \in Slots :
        (req[q].pc = "answer" /\ req[q].refresh # None /\ req[q].refresh # req[q].came)
            => "refresh" \in DOMAIN req[q].sets

(* "A second sign-in doesn't leave the first one alive": once a sign-in    *)
(* has landed and nothing is in flight, the only live session is the       *)
(* browser's, when no call was lost.                                       *)
OneSession ==
    (Quiet /\ left.lost = MaxLost /\ jar.refresh # None) =>
        \A s \in Sessions : Live(s) => s = jar.refresh[1]
=============================================================================
