-------------------------- MODULE WebSessionProofs --------------------------
(***************************************************************************)
(* What holds of WebSession for every number of requests, processes and    *)
(* sessions, and whatever is lost: no token anywhere names a session the   *)
(* API never issued, a sign-out that says so has ended its session, and no *)
(* session is ended for reuse, nor the browser left with a token the API   *)
(* refuses, until the browser misses a rotation or an answer lands out of  *)
(* order.                                                                  *)
(***************************************************************************)
EXTENDS WebSession, TLAPS

----------------------------------------------------------------------------
\* The inductive invariants

Session == [state : {"none", "live", "signed_out", "reuse"}, gen : Nat, fresh : Nat]
Store == [Sessions -> Session]

\* A token that is None, or that the API with the sessions v has issued.
Token(v, t) ==
    t = None \/ (t \in Refresh /\ v[t[1]].state # "none" /\ t[2] <= v[t[1]].gen)

\* What an answer sets is a cookie's value.
Cookies(v, c) ==
    /\ c = [n \in DOMAIN c |-> c[n]] /\ DOMAIN c \subseteq Names
    /\ "access" \in DOMAIN c => c.access \in Access \cup {None}
    /\ "refresh" \in DOMAIN c => Token(v, c.refresh)
    /\ "original" \in DOMAIN c => Token(v, c.original)

Phases == {"idle", "refresh", "again", "send", "resend", "impersonate", "trade", "drop", "revoke", "answer"}
Fields == {"kind", "pc", "iso", "access", "refresh", "original", "came", "sets", "status"}

\* A request holds tokens that were issued, and sets only such.
Request(v, r) ==
    /\ r = [f \in DOMAIN r |-> r[f]] /\ DOMAIN r = Fields
    /\ r.pc \in Phases /\ r.access \in Access \cup {None}
    /\ Token(v, r.refresh) /\ Token(v, r.original)
    /\ Cookies(v, r.sets)

EntryFields == {"iso", "token", "state", "access", "next"}
Entry(v, e) ==
    /\ e = [f \in DOMAIN e |-> e[f]] /\ DOMAIN e = EntryFields
    /\ e.access \in Access \cup {None} /\ Token(v, e.token) /\ Token(v, e.next) /\ e.token # None

Browser(v, c) == Cookies(v, c) /\ DOMAIN c = Names

StoreOK == srv \in Store /\ \A s \in Sessions : srv[s].fresh <= srv[s].gen
Clock == clock \in [age : Nat, secret : Nat]

Typed ==
    /\ StoreOK /\ Clock
    /\ Browser(srv, jar)
    /\ req = [q \in Slots |-> req[q]] /\ \A q \in Slots : Request(srv, req[q])
    /\ \A e \in shared : Entry(srv, e)
    /\ seen = [lost |-> seen.lost, crossed |-> seen.crossed, said |-> seen.said]
    /\ seen.said \subseteq Sessions

SessionInv == Typed /\ SignedOutIsOver

----------------------------------------------------------------------------
\* The handlers' steps keep a request one

LEMMA PlusCookies ==
    ASSUME NEW v, NEW c, NEW d, Cookies(v, c), Cookies(v, d)
    PROVE  Cookies(v, Plus(c, d))
BY DEF Cookies, Plus

LEMMA PlainCookies ==
    ASSUME NEW v
    PROVE  /\ Cookies(v, NoCookies)
           /\ Cookies(v, clearedSessionCookies)
           /\ \A a \in Access \cup {None} : \A t : Token(v, t) => Cookies(v, sessionCookies(a, t))
           /\ \A a \in Access \cup {None} : \A t : Token(v, t) => Cookies(v, [access |-> a, original |-> t])
           /\ \A a \in Access \cup {None} : \A t, u : Token(v, t) /\ Token(v, u) =>
                  Cookies(v, [access |-> a, refresh |-> t, original |-> u])
           /\ \A t : Token(v, t) => Cookies(v, [refresh |-> t])
<1>1. Cookies(v, NoCookies)
  BY DEF Cookies, NoCookies
<1>2. Token(v, None)
  BY DEF Token
<1>3. Cookies(v, clearedSessionCookies)
  BY <1>2 DEF Cookies, clearedSessionCookies, Names
<1>4. ASSUME NEW a \in Access \cup {None}, NEW t, Token(v, t)
      PROVE  Cookies(v, sessionCookies(a, t)) /\ Cookies(v, [access |-> a, original |-> t])
  BY <1>4 DEF Cookies, sessionCookies, Names
<1>5. ASSUME NEW a \in Access \cup {None}, NEW t, NEW u, Token(v, t), Token(v, u)
      PROVE  Cookies(v, [access |-> a, refresh |-> t, original |-> u])
  BY <1>5 DEF Cookies, Names
<1>6. ASSUME NEW t, Token(v, t) PROVE Cookies(v, [refresh |-> t])
  BY <1>6 DEF Cookies, Names
<1> QED
  BY <1>1, <1>3, <1>4, <1>5, <1>6

\* A request stays one when a field takes a value of its kind.
LEMMA Changed ==
    ASSUME NEW v, NEW r, Request(v, r)
    PROVE  /\ \A pc \in Phases : Request(v, [r EXCEPT !.pc = pc])
           /\ \A s : Request(v, [r EXCEPT !.status = s])
           /\ \A c : Cookies(v, c) => Request(v, [r EXCEPT !.sets = c])
           /\ \A a \in Access \cup {None} : Request(v, [r EXCEPT !.access = a])
           /\ \A t : Token(v, t) => Request(v, [r EXCEPT !.refresh = t])
<1>0. /\ r = [f \in Fields |-> r[f]] /\ DOMAIN r = Fields
      /\ r.pc \in Phases /\ r.access \in Access \cup {None}
      /\ Token(v, r.refresh) /\ Token(v, r.original) /\ Cookies(v, r.sets)
  BY DEF Request
<1>1. ASSUME NEW f \in Fields, NEW x,
             f = "pc" => x \in Phases, f = "access" => x \in Access \cup {None},
             f \in {"refresh", "original"} => Token(v, x), f = "sets" => Cookies(v, x)
      PROVE  Request(v, [r EXCEPT ![f] = x])
  <2> DEFINE new == [r EXCEPT ![f] = x]
  <2>1. /\ DOMAIN new = Fields /\ new = [g \in Fields |-> new[g]]
        /\ \A g \in Fields : new[g] = IF g = f THEN x ELSE r[g]
    BY <1>0
  <2> HIDE DEF new
  <2>2. {"pc", "access", "refresh", "original", "sets"} \subseteq Fields
    BY DEF Fields
  <2> QED
    BY <1>0, <1>1, <2>1, <2>2 DEF Request
<1>2. {"pc", "access", "refresh", "original", "sets", "status"} \subseteq Fields
  BY DEF Fields
<1> QED
  BY <1>1, <1>2

LEMMA Answers ==
    ASSUME NEW v, NEW r, Request(v, r), NEW s
    PROVE  Request(v, Answer(r, s)) /\ Answer(r, s).sets = r.sets
<1> DEFINE a == [r EXCEPT !.pc = "answer"]
<1>1. Request(v, a)
  BY Changed DEF Phases
<1>2. Request(v, [a EXCEPT !.status = s])
  BY <1>1, Changed
<1>3. Request(v, Answer(r, s))
  BY <1>2 DEF Answer
<1>4. r = [f \in DOMAIN r |-> r[f]] /\ "sets" \in DOMAIN r
  BY DEF Request, Fields
<1>5. Answer(r, s).sets = r.sets
  BY <1>4 DEF Answer
<1> QED
  BY <1>3, <1>5

LEMMA Ends ==
    ASSUME NEW v, NEW r, Request(v, r)
    PROVE  Request(v, endSession(r))
<1>1. Cookies(v, Plus(r.sets, clearedSessionCookies)) /\ Token(v, None)
  BY PlusCookies, PlainCookies DEF Request, Token
<1>2. None \in Access \cup {None}
  OBVIOUS
<1> DEFINE a == [r EXCEPT !.access = None]
           b == [a EXCEPT !.refresh = None]
           c == [b EXCEPT !.sets = Plus(r.sets, clearedSessionCookies)]
<1>3. Request(v, a)
  BY <1>2, Changed
<1>4. Request(v, b)
  BY <1>1, <1>3, Changed
<1>5. Request(v, c)
  BY <1>1, <1>4, Changed
<1>6. endSession(r) = c
  BY DEF endSession, Request
<1> QED
  BY <1>5, <1>6

\* A request that was refreshed, refused or given up is one still.
LEMMA Outcomes ==
    ASSUME NEW v, NEW r, Request(v, r)
    PROVE  /\ Request(v, AfterEnsure(r)) /\ Request(v, Without(r)) /\ Request(v, Refused(r))
           /\ Request(v, GotEnded(r)) /\ Request(v, GotNothing(r))
           /\ \A a \in Access \cup {None} : \A t : Token(v, t) => Request(v, Got(r, a, t))
<1>1. ASSUME NEW u, Request(v, u)
      PROVE  /\ Request(v, AfterEnsure(u)) /\ Request(v, endSession(u))
             /\ \A s : Request(v, Answer(u, s))
             /\ \A s : Request(v, [Answer(u, s) EXCEPT !.sets = NoCookies])
             /\ Request(v, Without(u)) /\ Request(v, Refused(u))
  <2>1. Request(v, AfterEnsure(u))
    BY <1>1, Changed DEF AfterEnsure, Phases
  <2>2. Request(v, endSession(u))
    BY <1>1, Ends
  <2>3. \A s : Request(v, Answer(u, s)) /\ Request(v, Answer(endSession(u), s))
    BY <1>1, <2>2, Answers
  <2>4. \A s : Request(v, [Answer(u, s) EXCEPT !.sets = NoCookies])
    BY <2>3, PlainCookies, Changed
  <2>5. Request(v, [u EXCEPT !.pc = "send"])
    BY <1>1, Changed DEF Phases
  <2>6. Request(v, Without(u)) /\ Request(v, Refused(u))
    BY <2>3, <2>4, <2>5 DEF Without, Refused
  <2> QED
    BY <2>1, <2>2, <2>3, <2>4, <2>6
<1>2. Request(v, endSession(r))
  BY Ends
<1>3. Request(v, GotEnded(r))
  BY <1>1, <1>2 DEF GotEnded
<1>4. Request(v, GotNothing(r))
  BY <1>1 DEF GotNothing
<1>5. ASSUME NEW a \in Access \cup {None}, NEW t, Token(v, t) PROVE Request(v, Got(r, a, t))
  <2> DEFINE b == [r EXCEPT !.access = a]
             c == [b EXCEPT !.refresh = t]
             s == [c EXCEPT !.sets = Plus(r.sets, sessionCookies(a, t))]
  <2>1. Cookies(v, Plus(r.sets, sessionCookies(a, t)))
    BY <1>5, PlusCookies, PlainCookies DEF Request
  <2>2. Request(v, b)
    BY Changed
  <2>3. Request(v, c)
    BY <1>5, <2>2, Changed
  <2>4. Request(v, s)
    BY <2>1, <2>3, Changed
  <2>5. Request(v, [s EXCEPT !.pc = "resend"])
    BY <2>4, Changed DEF Phases
  <2>6. Got(r, a, t) = IF r.pc = "again" THEN [s EXCEPT !.pc = "resend"] ELSE AfterEnsure(s)
    BY DEF Got, Request
  <2> QED
    BY <1>1, <2>4, <2>5, <2>6
<1> QED
  BY <1>1, <1>3, <1>4, <1>5

\* The shared refreshes hold tokens that were issued.
LEMMA Openings ==
    ASSUME NEW v, NEW r, NEW entries, Request(v, r), r.refresh # None,
           \A e \in entries : Entry(v, e)
    PROVE  \A e \in Opened(r, entries) : Entry(v, e)
<1> DEFINE e == [iso |-> r.iso, token |-> r.refresh, state |-> "flying", access |-> None, next |-> None]
<1>1. Entry(v, e)
  BY DEF Entry, EntryFields, Request, Token
<1> HIDE DEF e
<1>2. Opened(r, entries) \subseteq entries \cup {e}
  BY DEF Opened, e
<1> QED
  BY <1>1, <1>2

LEMMA Joins ==
    ASSUME NEW v, NEW r, NEW entries, Request(v, r), \A e \in entries : Entry(v, e),
           NEW pc \in {"refresh", "again"}
    PROVE  Request(v, Joined(r, pc, entries))
<1> DEFINE w == [r EXCEPT !.pc = pc]
           e == CHOOSE x \in EntryOf(r, entries) : TRUE
<1>1. Request(v, w)
  BY Changed DEF Phases
<1>2. CASE EntryOf(r, entries) = {}
  BY <1>1, <1>2 DEF Joined
<1>3. CASE EntryOf(r, entries) # {}
  <2>1. e \in entries
    BY <1>3 DEF EntryOf
  <2>2. e.access \in Access \cup {None} /\ Token(v, e.next)
    BY <2>1 DEF Entry
  <2>3. Request(v, Got(w, e.access, e.next)) /\ Request(v, GotEnded(w))
    BY <1>1, <2>2, Outcomes
  <2> QED
    BY <1>1, <2>3 DEF Joined
<1> QED
  BY <1>2, <1>3

LEMMA Begins ==
    ASSUME NEW v, NEW r, NEW entries, Request(v, r), \A e \in entries : Entry(v, e)
    PROVE  Request(v, Begin(r, entries))
<1>1. Request(v, Ensured(r, entries))
  BY Outcomes, Joins DEF Ensured
<1>2. Request(v, Stopped(r))
  <2> DEFINE c == Plus([access |-> None, original |-> None],
                       IF r.original # None THEN [refresh |-> r.original] ELSE NoCookies)
  <2>1. Token(v, None) /\ Token(v, r.original) /\ None \in Access \cup {None}
    BY DEF Token, Request
  <2>2. Cookies(v, c)
    BY <2>1, PlusCookies, PlainCookies
  <2>3. Request(v, [r EXCEPT !.sets = c])
    BY <2>2, Changed
  <2> QED
    BY <2>3, Answers DEF Stopped
<1>3. Request(v, [r EXCEPT !.pc = "trade"]) /\ Request(v, [r EXCEPT !.pc = "revoke"])
  BY Changed DEF Phases
<1> QED
  BY <1>1, <1>2, <1>3 DEF Begin

LEMMA Reads ==
    ASSUME NEW v, NEW c, Browser(v, c), NEW kind, NEW iso
    PROVE  Request(v, readSession(kind, iso, c)) /\ readSession(kind, iso, c).refresh = c.refresh
<1>1. c.access \in Access \cup {None} /\ Token(v, c.refresh) /\ Token(v, c.original)
  BY DEF Browser, Cookies, Names
<1> DEFINE i == Idle
<1>0. i = [kind |-> None, pc |-> "idle", iso |-> None, access |-> None, refresh |-> None,
           original |-> None, came |-> None, sets |-> NoCookies, status |-> None]
  BY DEF Idle
<1>3. readSession(kind, iso, c) =
          [i EXCEPT !.kind = kind, !.iso = iso, !.access = c.access, !.refresh = c.refresh,
                    !.original = c.original, !.came = c.refresh]
  BY DEF readSession
<1> HIDE DEF i
<1>2. readSession(kind, iso, c) =
          [kind |-> kind, pc |-> "idle", iso |-> iso, access |-> c.access, refresh |-> c.refresh,
           original |-> c.original, came |-> c.refresh, sets |-> NoCookies, status |-> None]
  BY <1>0, <1>3
<1> QED
  BY <1>1, <1>2, PlainCookies DEF Request, Fields, Phases

LEMMA IdleRequest == \A v : Request(v, Idle)
BY PlainCookies DEF Request, Idle, Fields, Phases, Token

LEMMA Nexts ==
    ASSUME NEW v, NEW r, NEW c, NEW entries, NEW iso, Browser(v, c), \A e \in entries : Entry(v, e)
    PROVE  Request(v, Next_(r, iso, c, entries))
<1>1. Request(v, Begin(readSession("login", iso, c), entries))
  BY Reads, Begins
<1>2. \A kind : Request(v, Begin(readSession(kind, None, c), {}))
  BY Reads, Begins
<1>3. Request(v, handleAuthFailure(c))
  BY <1>2 DEF handleAuthFailure
<1> QED
  BY <1>1, <1>3, IdleRequest DEF Next_

----------------------------------------------------------------------------
\* The API's sessions only go forward

\* w is what the sessions v may become: an issued token stays issued, and what is over is over.
Later(v, w) ==
    /\ v \in Store /\ w \in Store
    /\ \A s \in Sessions :
           /\ w[s].fresh <= w[s].gen /\ v[s].gen <= w[s].gen
           /\ v[s].state # "none" => w[s].state # "none"
           /\ v[s].state \in {"signed_out", "reuse"} => w[s].state = v[s].state

LEMMA Carried ==
    ASSUME NEW v, NEW w, Later(v, w)
    PROVE  /\ \A t : Token(v, t) => Token(w, t)
           /\ \A c : Cookies(v, c) => Cookies(w, c)
           /\ \A c : Browser(v, c) => Browser(w, c)
           /\ \A r : Request(v, r) => Request(w, r)
           /\ \A e : Entry(v, e) => Entry(w, e)
<1>1. ASSUME NEW t, Token(v, t) PROVE Token(w, t)
  <2>1. CASE t = None
    BY <2>1 DEF Token
  <2>2. CASE t # None
    <3>1. t \in Refresh /\ v[t[1]].state # "none" /\ t[2] <= v[t[1]].gen /\ t[1] \in Sessions /\ t[2] \in Nat
      BY <1>1, <2>2 DEF Token, Refresh
    <3>2. v[t[1]].gen \in Nat /\ w[t[1]].gen \in Nat /\ v[t[1]].gen <= w[t[1]].gen /\ w[t[1]].state # "none"
      BY <3>1 DEF Later, Store, Session
    <3> QED
      BY <3>1, <3>2 DEF Token
  <2> QED
    BY <2>1, <2>2
<1>2. \A c : Cookies(v, c) => Cookies(w, c)
  BY <1>1 DEF Cookies
<1>3. \A r : Request(v, r) => Request(w, r)
  BY <1>1, <1>2 DEF Request
<1> QED
  BY <1>1, <1>2, <1>3 DEF Browser, Entry

LEMMA Sessioned ==
    ASSUME NEW x \in Session
    PROVE  /\ x.gen \in Nat /\ x.fresh \in Nat /\ x.state \in {"none", "live", "signed_out", "reuse"}
           /\ \A y : [x EXCEPT !.state = y] = [state |-> y, gen |-> x.gen, fresh |-> x.fresh]
           /\ \A y : [x EXCEPT !.fresh = y] = [state |-> x.state, gen |-> x.gen, fresh |-> y]
           /\ \A y, z : [x EXCEPT !.gen = y, !.state = z] = [state |-> z, gen |-> y, fresh |-> x.fresh]
<1>1. x = [state |-> x.state, gen |-> x.gen, fresh |-> x.fresh]
      /\ x.gen \in Nat /\ x.fresh \in Nat /\ x.state \in {"none", "live", "signed_out", "reuse"}
  BY DEF Session
<1> DEFINE st == x.state
           gn == x.gen
           fr == x.fresh
<1>0. x = [state |-> st, gen |-> gn, fresh |-> fr]
  BY <1>1
<1> HIDE DEF st, gn, fr
<1>2. ASSUME NEW y PROVE [x EXCEPT !.state = y] = [state |-> y, gen |-> gn, fresh |-> fr]
  BY <1>0
<1>3. ASSUME NEW y PROVE [x EXCEPT !.fresh = y] = [state |-> st, gen |-> gn, fresh |-> y]
  BY <1>0
<1>4. ASSUME NEW y, NEW z PROVE [x EXCEPT !.gen = y, !.state = z] = [state |-> z, gen |-> y, fresh |-> fr]
  <2> DEFINE a == [x EXCEPT !.gen = y]
  <2>1. a = [state |-> st, gen |-> y, fresh |-> fr]
    BY <1>0
  <2>2. [x EXCEPT !.gen = y, !.state = z] = [a EXCEPT !.state = z]
    OBVIOUS
  <2> HIDE DEF a
  <2> QED
    BY <2>1, <2>2
<1> QED
  BY <1>1, <1>2, <1>3, <1>4 DEF st, gn, fr

LEMMA Stored ==
    ASSUME StoreOK, NEW s \in Sessions
    PROVE  srv[s] \in Session /\ srv[s].fresh <= srv[s].gen
BY DEF StoreOK, Store

LEMMA Unchanging == ASSUME StoreOK PROVE Later(srv, srv)
<1>1. \A s \in Sessions : srv[s].gen \in Nat /\ srv[s].fresh <= srv[s].gen
  BY Stored, Sessioned
<1> QED
  BY <1>1 DEF StoreOK, Later

\* One session goes on.
LEMMA GoesOn ==
    ASSUME StoreOK, NEW s \in Sessions, NEW x \in Session, x.fresh <= x.gen, srv[s].gen <= x.gen,
           srv[s].state # "none" => x.state # "none",
           srv[s].state \in {"signed_out", "reuse"} => x.state = srv[s].state
    PROVE  Later(srv, [srv EXCEPT ![s] = x]) /\ [srv EXCEPT ![s] = x][s] = x
<1>1. [srv EXCEPT ![s] = x] \in Store /\ srv \in Store
  BY DEF StoreOK, Store
<1>2. \A p \in Sessions : [srv EXCEPT ![s] = x][p] = IF p = s THEN x ELSE srv[p]
  BY DEF StoreOK, Store
<1>3. \A p \in Sessions : srv[p].gen \in Nat /\ srv[p].fresh <= srv[p].gen
  BY Stored, Sessioned
<1> DEFINE w == [srv EXCEPT ![s] = x]
<1> HIDE DEF w
<1>4. ASSUME w \in Store, \A p \in Sessions : w[p] = IF p = s THEN x ELSE srv[p]
      PROVE  Later(srv, w)
  BY <1>1, <1>3, <1>4 DEF Later
<1> QED
  BY <1>1, <1>2, <1>4 DEF w

\* Store.Refresh: and the token it answers with is one of the store it leaves.
LEMMA RefreshGoesOn ==
    ASSUME StoreOK, NEW t, Token(srv, t), t # None
    PROVE  Later(srv, Refreshed(t)) /\ Token(Refreshed(t), NextToken(t))
<1> DEFINE s == t[1]
           new == [state |-> IF Reused(t) THEN "reuse" ELSE srv[s].state,
                   gen |-> IF Rotates(t) THEN srv[s].gen + 1 ELSE srv[s].gen, fresh |-> srv[s].fresh]
<1>1. t \in Refresh /\ s \in Sessions /\ t[2] \in Nat /\ srv[s].state # "none" /\ t[2] <= srv[s].gen
  BY DEF Token, Refresh
<1>2. /\ srv[s] \in Session /\ srv[s].fresh <= srv[s].gen
      /\ srv[s].gen \in Nat /\ srv[s].fresh \in Nat /\ srv[s].state \in {"none", "live", "signed_out", "reuse"}
  BY <1>1, Stored, Sessioned
<1>3. Refreshed(t) = [srv EXCEPT ![s] = new]
  <2>1. \A y, z : [srv[s] EXCEPT !.gen = y, !.state = z] = [state |-> z, gen |-> y, fresh |-> srv[s].fresh]
    BY <1>2, Sessioned
  <2>2. Refreshed(t) = [srv EXCEPT ![s] = [srv[s] EXCEPT
                           !.gen = IF Rotates(t) THEN srv[s].gen + 1 ELSE srv[s].gen,
                           !.state = IF Reused(t) THEN "reuse" ELSE srv[s].state]]
    BY DEF Refreshed
  <2> QED
    BY <2>1, <2>2
<1>4. Reused(t) => srv[s].state = "live"
  BY DEF Reused, Live
<1>5. /\ new \in Session /\ new.fresh <= new.gen /\ srv[s].gen <= new.gen /\ new.state # "none"
      /\ srv[s].state \in {"signed_out", "reuse"} => new.state = srv[s].state
      /\ new.gen = IF Rotates(t) THEN srv[s].gen + 1 ELSE srv[s].gen
  <2>1. /\ (IF Reused(t) THEN "reuse" ELSE srv[s].state) \in {"none", "live", "signed_out", "reuse"}
        /\ (IF Rotates(t) THEN srv[s].gen + 1 ELSE srv[s].gen) \in Nat
    BY <1>2
  <2>2. new \in Session
    BY <1>2, <2>1 DEF Session
  <2>3. new.fresh = srv[s].fresh /\ new.gen = (IF Rotates(t) THEN srv[s].gen + 1 ELSE srv[s].gen)
        /\ new.state = (IF Reused(t) THEN "reuse" ELSE srv[s].state)
    OBVIOUS
  <2> HIDE DEF new
  <2> QED
    BY <1>1, <1>2, <1>4, <2>2, <2>3
<1> HIDE DEF new
<1>6. Later(srv, Refreshed(t)) /\ Refreshed(t)[s] = new
  BY <1>1, <1>3, <1>5, GoesOn
<1>7. NextToken(t) = <<s, IF Rotates(t) THEN t[2] + 1 ELSE srv[s].gen>>
  BY DEF NextToken
<1>8. /\ NextToken(t) \in Refresh /\ NextToken(t)[1] = s /\ NextToken(t)[2] <= new.gen
  BY <1>1, <1>2, <1>5, <1>7 DEF Refresh
<1> QED
  BY <1>5, <1>6, <1>8 DEF Token

LEMMA SigningOut ==
    ASSUME StoreOK, NEW ss \in SUBSET Sessions, \A s \in ss : Live(s)
    PROVE  /\ Later(srv, SignedOut(ss))
           /\ \A s \in ss : SignedOut(ss)[s].state = "signed_out"
<1> DEFINE out(s) == [state |-> "signed_out", gen |-> srv[s].gen, fresh |-> srv[s].fresh]
           w == SignedOut(ss)
<1>1. \A s \in Sessions : /\ srv[s] \in Session /\ srv[s].fresh <= srv[s].gen
                            /\ srv[s].gen \in Nat /\ srv[s].fresh \in Nat
                            /\ [srv[s] EXCEPT !.state = "signed_out"] = out(s)
  BY Stored, Sessioned
<1>2. w = [s \in Sessions |-> IF s \in ss THEN out(s) ELSE srv[s]]
  BY <1>1 DEF SignedOut
<1>3. \A s \in Sessions : /\ out(s) \in Session /\ out(s).fresh <= out(s).gen /\ srv[s].gen <= out(s).gen
                            /\ out(s).state = "signed_out"
  <2> TAKE s \in Sessions
  <2>1. srv[s].gen \in Nat /\ srv[s].fresh \in Nat /\ srv[s].fresh <= srv[s].gen
    BY <1>1
  <2> QED
    BY <2>1 DEF Session
<1> HIDE DEF w, out
<1>4. w \in Store /\ \A s \in Sessions : w[s] = IF s \in ss THEN out(s) ELSE srv[s]
  BY <1>1, <1>2, <1>3 DEF Store
<1>5. \A s \in ss : srv[s].state = "live"
  BY DEF Live
<1>6. Later(srv, w)
  BY <1>1, <1>3, <1>4, <1>5 DEF Later, StoreOK
<1>7. \A s \in ss : w[s].state = "signed_out"
  BY <1>3, <1>4
<1> QED
  BY <1>6, <1>7 DEF w

LEMMA Opening ==
    ASSUME StoreOK, NEW s \in Sessions, srv[s].state = "none"
    PROVE  /\ Later(srv, [srv EXCEPT ![s].state = "live"])
           /\ Token([srv EXCEPT ![s].state = "live"], <<s, 0>>)
<1> DEFINE new == [state |-> "live", gen |-> srv[s].gen, fresh |-> srv[s].fresh]
<1>1. /\ srv[s].gen \in Nat /\ srv[s].fresh \in Nat /\ srv[s].fresh <= srv[s].gen
      /\ [srv[s] EXCEPT !.state = "live"] = new
  BY Stored, Sessioned
<1>2. [srv EXCEPT ![s].state = "live"] = [srv EXCEPT ![s] = new]
  BY <1>1
<1>3. new \in Session /\ new.fresh <= new.gen /\ new.gen = srv[s].gen /\ new.state = "live"
  BY <1>1 DEF Session
<1> HIDE DEF new
<1>4. Later(srv, [srv EXCEPT ![s] = new]) /\ [srv EXCEPT ![s] = new][s] = new
  BY <1>1, <1>3, GoesOn
<1>5. <<s, 0>> \in Refresh /\ <<s, 0>>[1] = s /\ <<s, 0>>[2] = 0
  BY DEF Refresh
<1>6. Token([srv EXCEPT ![s] = new], <<s, 0>>)
  BY <1>1, <1>3, <1>4, <1>5 DEF Token
<1> QED
  BY <1>2, <1>4, <1>6

LEMMA GrowsStale == ASSUME StoreOK PROVE Later(srv, Stale)
<1> DEFINE old(s) == [state |-> srv[s].state, gen |-> srv[s].gen, fresh |-> srv[s].gen]
           w == Stale
<1>1. \A s \in Sessions : /\ srv[s].gen \in Nat /\ srv[s].state \in {"none", "live", "signed_out", "reuse"}
                            /\ [srv[s] EXCEPT !.fresh = srv[s].gen] = old(s)
  BY Stored, Sessioned
<1>2. w = [s \in Sessions |-> old(s)]
  BY <1>1 DEF Stale
<1>3. \A s \in Sessions : /\ old(s) \in Session /\ old(s).fresh <= old(s).gen /\ srv[s].gen <= old(s).gen
                            /\ old(s).state = srv[s].state
  <2> TAKE s \in Sessions
  <2>1. srv[s].gen \in Nat /\ srv[s].state \in {"none", "live", "signed_out", "reuse"}
    BY <1>1
  <2> QED
    BY <2>1 DEF Session
<1> HIDE DEF w, old
<1>4. w \in Store /\ \A s \in Sessions : w[s] = old(s)
  BY <1>2, <1>3 DEF Store
<1>6. Later(srv, w)
  BY <1>3, <1>4 DEF Later, StoreOK
<1> QED
  BY <1>6 DEF w

----------------------------------------------------------------------------
\* Every step keeps the invariant

LEMMA Stands ==
    ASSUME Typed, Later(srv, srv')
    PROVE  /\ StoreOK' /\ Browser(srv', jar)
           /\ \A q \in Slots : Request(srv', req[q])
           /\ \A e \in shared : Entry(srv', e)
BY Carried DEF Typed, Later, StoreOK

\* One request goes on.
LEMMA Placed ==
    ASSUME Typed, Later(srv, srv'), NEW q \in Slots, NEW x, Request(srv', x), req' = [req EXCEPT ![q] = x]
    PROVE  req' = [p \in Slots |-> req'[p]] /\ \A p \in Slots : Request(srv', req'[p])
<1>1. req = [p \in Slots |-> req[p]] /\ \A p \in Slots : Request(srv', req[p])
  BY Stands DEF Typed
<1>2. req' = [p \in Slots |-> req'[p]] /\ \A p \in Slots : req'[p] = IF p = q THEN x ELSE req[p]
  BY <1>1
<1> QED
  BY <1>1, <1>2

LEMMA Histories ==
    ASSUME Typed
    PROVE  /\ \A x : LET h == [seen EXCEPT !.lost = x]
                     IN  h = [lost |-> h.lost, crossed |-> h.crossed, said |-> h.said] /\ h.said = seen.said
           /\ \A x : LET h == [seen EXCEPT !.crossed = x]
                     IN  h = [lost |-> h.lost, crossed |-> h.crossed, said |-> h.said] /\ h.said = seen.said
           /\ \A x : LET h == [seen EXCEPT !.said = x]
                     IN  h = [lost |-> h.lost, crossed |-> h.crossed, said |-> h.said] /\ h.said = x
BY DEF Typed

LEMMA Concluded ==
    ASSUME SessionInv, Later(srv, srv'), Clock', Browser(srv', jar'),
           req' = [q \in Slots |-> req'[q]], \A q \in Slots : Request(srv', req'[q]),
           \A e \in shared' : Entry(srv', e),
           seen' = [lost |-> seen'.lost, crossed |-> seen'.crossed, said |-> seen'.said],
           seen'.said \subseteq Sessions,
           \A s \in seen'.said : s \in seen.said \/ srv'[s].state \in {"signed_out", "reuse"}
    PROVE  SessionInv'
<1>1. StoreOK'
  BY Stands DEF SessionInv
<1>2. SignedOutIsOver'
  BY DEF SessionInv, SignedOutIsOver, Later, Typed
<1> QED
  BY <1>1, <1>2 DEF SessionInv, Typed

\* A step of one request that touches no session, cookie or sign-out.
LEMMA OneRequest ==
    ASSUME SessionInv, NEW q \in Slots, NEW x, Request(srv, x), req' = [req EXCEPT ![q] = x],
           \A e \in shared' : Entry(srv, e),
           UNCHANGED <<jar, srv, clock>>, seen' = seen \/ \E y : seen' = [seen EXCEPT !.lost = y]
    PROVE  SessionInv'
<1>1. Typed
  BY DEF SessionInv
<1>2. Later(srv, srv') /\ srv' = srv
  BY <1>1, Unchanging DEF Typed
<1>3. req' = [p \in Slots |-> req'[p]] /\ \A p \in Slots : Request(srv', req'[p])
  BY <1>1, <1>2, Placed
<1>4. /\ seen' = [lost |-> seen'.lost, crossed |-> seen'.crossed, said |-> seen'.said]
      /\ seen'.said = seen.said /\ seen.said \subseteq Sessions
  BY <1>1, Histories DEF Typed
<1>5. Clock' /\ Browser(srv', jar') /\ \A e \in shared' : Entry(srv', e)
  BY <1>1, <1>2 DEF Typed, Clock
<1> QED
  BY <1>2, <1>3, <1>4, <1>5, Concluded

LEMMA SendStep == ASSUME SessionInv, NEW q \in Slots, NEW kind, NEW iso, Send(q, kind, iso) PROVE SessionInv'
<1> DEFINE r == readSession(kind, iso, jar)
<1>1. Typed /\ Browser(srv, jar) /\ \A e \in shared : Entry(srv, e)
  BY DEF SessionInv, Typed
<1>2. Request(srv, r)
  BY <1>1, Reads
<1>3. Request(srv, Begin(r, shared))
  BY <1>1, <1>2, Begins
<1>4. \A e \in shared' : Entry(srv, e)
  BY <1>1, <1>2, Openings DEF Send, Needs
<1>5. req' = [req EXCEPT ![q] = Begin(r, shared)] /\ UNCHANGED <<jar, srv, clock, seen>>
  BY DEF Send
<1> QED
  BY <1>3, <1>4, <1>5, OneRequest

LEMMA SentStep == ASSUME SessionInv, NEW q \in Slots, Sent(q) PROVE SessionInv'
<1> DEFINE r == req[q]
           force == ~Accepted(r.access) /\ r.refresh # None
           x == IF Accepted(r.access) THEN Answer(r, "ok")
                ELSE IF force THEN Joined(r, "again", shared) ELSE Refused(r)
<1>1. Request(srv, r) /\ \A e \in shared : Entry(srv, e)
  BY DEF SessionInv, Typed
<1>2. Request(srv, x)
  BY <1>1, Answers, Joins, Outcomes
<1>3. \A e \in shared' : Entry(srv, e)
  BY <1>1, Openings DEF Sent
<1>4. req' = [req EXCEPT ![q] = x] /\ UNCHANGED <<jar, srv, clock, seen>>
  BY DEF Sent
<1> HIDE DEF x
<1> QED
  BY <1>2, <1>3, <1>4, OneRequest

LEMMA ResentStep == ASSUME SessionInv, NEW q \in Slots, Resent(q) PROVE SessionInv'
<1> DEFINE r == req[q]
           x == IF Accepted(r.access) THEN Answer(r, "ok")
                ELSE IF r.kind = "api" THEN Answer(endSession(r), "401") ELSE Refused(r)
<1>1. Request(srv, r) /\ \A e \in shared : Entry(srv, e)
  BY DEF SessionInv, Typed
<1>2. Request(srv, x)
  BY <1>1, Answers, Ends, Outcomes
<1>3. req' = [req EXCEPT ![q] = x] /\ UNCHANGED <<jar, shared, srv, clock, seen>>
  BY DEF Resent
<1> HIDE DEF x
<1> QED
  BY <1>1, <1>2, <1>3, OneRequest

LEMMA Minting ==
    ASSUME Clock, NEW s \in Sessions, NEW own \in BOOLEAN
    PROVE  Minted(s, own) \in Access
BY DEF Minted, Access, Clock

LEMMA ImpersonatedStep == ASSUME SessionInv, NEW q \in Slots, Impersonated(q) PROVE SessionInv'
<1> DEFINE r == req[q]
           a == Minted(r.access.s, FALSE)
           c == Plus(r.sets, [access |-> a, refresh |-> None, original |-> r.refresh])
           x == IF Accepted(r.access) THEN Answer([r EXCEPT !.sets = c], "ok") ELSE Answer(r, "401")
<1>1. Request(srv, r) /\ Clock /\ \A e \in shared : Entry(srv, e)
  BY DEF SessionInv, Typed
<1>2. ASSUME Accepted(r.access) PROVE Request(srv, Answer([r EXCEPT !.sets = c], "ok"))
  <2>1. r.access \in Access
    BY <1>1, <1>2 DEF Accepted, Usable, Request
  <2>2. a \in Access
    BY <1>1, <2>1, Minting DEF Access
  <2>3. Token(srv, None) /\ Token(srv, r.refresh) /\ Cookies(srv, r.sets)
    BY <1>1 DEF Token, Request
  <2> HIDE DEF a
  <2>4. Cookies(srv, [access |-> a, refresh |-> None, original |-> r.refresh])
    BY <2>2, <2>3, PlainCookies
  <2>5. Cookies(srv, c)
    BY <2>3, <2>4, PlusCookies
  <2>6. Request(srv, [r EXCEPT !.sets = c])
    BY <1>1, <2>5, Changed
  <2> QED
    BY <2>6, Answers
<1>3. Request(srv, x)
  BY <1>1, <1>2, Answers
<1>4. req' = [req EXCEPT ![q] = x] /\ UNCHANGED <<jar, shared, srv, clock, seen>>
  BY DEF Impersonated, Request
<1> HIDE DEF x
<1> QED
  BY <1>1, <1>3, <1>4, OneRequest

LEMMA ImpersonateLostStep == ASSUME SessionInv, NEW q \in Slots, ImpersonateLost(q) PROVE SessionInv'
<1> DEFINE x == [Answer(req[q], "502") EXCEPT !.sets = NoCookies]
<1>1. Request(srv, req[q]) /\ \A e \in shared : Entry(srv, e)
  BY DEF SessionInv, Typed
<1>2. Request(srv, x)
  BY <1>1, Answers, Changed, PlainCookies
<1>3. req' = [req EXCEPT ![q] = x] /\ UNCHANGED <<jar, shared, srv, clock>>
      /\ \E y : seen' = [seen EXCEPT !.lost = y]
  BY DEF ImpersonateLost
<1> HIDE DEF x
<1> QED
  BY <1>1, <1>2, <1>3, OneRequest

LEMMA AbandonStep == ASSUME SessionInv, NEW q \in Slots, Abandon(q) PROVE SessionInv'
<1>1. \A e \in shared : Entry(srv, e)
  BY DEF SessionInv, Typed
<1>2. req' = [req EXCEPT ![q] = Idle] /\ UNCHANGED <<jar, shared, srv, clock>>
      /\ \E y : seen' = [seen EXCEPT !.lost = y]
  BY DEF Abandon
<1> QED
  BY <1>1, <1>2, IdleRequest, OneRequest

LEMMA LandStep == ASSUME SessionInv, NEW q \in Slots, NEW iso, Land(q, iso) PROVE SessionInv'
<1> DEFINE r == req[q]
           c == withCookies(r.sets)
           then == readSession("login", iso, c)
<1>1. Typed /\ Request(srv, r) /\ Browser(srv, jar) /\ \A e \in shared : Entry(srv, e)
  BY DEF SessionInv, Typed
<1>2. Browser(srv, c)
  <2>1. c = [n \in Names |-> IF n \in DOMAIN r.sets THEN r.sets[n] ELSE jar[n]]
    BY DEF withCookies
  <2>2. /\ DOMAIN r.sets \subseteq Names
        /\ "access" \in DOMAIN r.sets => r.sets.access \in Access \cup {None}
        /\ "refresh" \in DOMAIN r.sets => Token(srv, r.sets.refresh)
        /\ "original" \in DOMAIN r.sets => Token(srv, r.sets.original)
    BY <1>1 DEF Request, Cookies
  <2>3. jar.access \in Access \cup {None} /\ Token(srv, jar.refresh) /\ Token(srv, jar.original)
    BY <1>1 DEF Browser, Cookies, Names
  <2> HIDE DEF c
  <2> QED
    BY <2>1, <2>2, <2>3 DEF Browser, Cookies, Names
<1>3. Later(srv, srv') /\ srv' = srv /\ jar' = c
  BY <1>1, Unchanging DEF Land, Typed
<1>4. Request(srv, then)
  BY <1>2, Reads
<1>5. \A e \in shared' : Entry(srv, e)
  BY <1>1, <1>4, Openings DEF Land, Needs
<1> HIDE DEF c
<1>6. Request(srv, Next_(r, iso, c, shared))
  BY <1>1, <1>2, Nexts
<1>7. req' = [req EXCEPT ![q] = Next_(r, iso, c, shared)] /\ clock' = clock
      /\ \E y : seen' = [seen EXCEPT !.crossed = y]
  BY <1>3 DEF Land
<1>8. req' = [p \in Slots |-> req'[p]] /\ \A p \in Slots : Request(srv', req'[p])
  BY <1>1, <1>3, <1>6, <1>7, Placed
<1>9. /\ seen' = [lost |-> seen'.lost, crossed |-> seen'.crossed, said |-> seen'.said]
      /\ seen'.said = seen.said /\ seen.said \subseteq Sessions
  BY <1>1, <1>7, Histories DEF Typed
<1>10. Clock' /\ Browser(srv', jar') /\ \A e \in shared' : Entry(srv', e)
  BY <1>1, <1>2, <1>3, <1>5, <1>7 DEF Typed, Clock
<1> QED
  BY <1>3, <1>8, <1>9, <1>10, Concluded

LEMMA EntryKept ==
    ASSUME NEW v, NEW e, Entry(v, e)
    PROVE  /\ Entry(v, [e EXCEPT !.state = "ended"])
           /\ \A a \in Access \cup {None} : \A t : Token(v, t) =>
                  Entry(v, [e EXCEPT !.state = "ok", !.access = a, !.next = t])
<1>0. /\ e = [f \in EntryFields |-> e[f]] /\ DOMAIN e = EntryFields
      /\ e.access \in Access \cup {None} /\ Token(v, e.token) /\ Token(v, e.next) /\ e.token # None
  BY DEF Entry
<1>1. ASSUME NEW u, Entry(v, u), NEW f \in EntryFields, NEW x, f # "token",
             f = "access" => x \in Access \cup {None}, f = "next" => Token(v, x)
      PROVE  Entry(v, [u EXCEPT ![f] = x])
  <2> DEFINE new == [u EXCEPT ![f] = x]
  <2>0. /\ u = [g \in EntryFields |-> u[g]] /\ DOMAIN u = EntryFields
        /\ u.access \in Access \cup {None} /\ Token(v, u.token) /\ Token(v, u.next) /\ u.token # None
    BY <1>1 DEF Entry
  <2>1. /\ DOMAIN new = EntryFields /\ new = [g \in EntryFields |-> new[g]]
        /\ \A g \in EntryFields : new[g] = IF g = f THEN x ELSE u[g]
    BY <2>0
  <2> HIDE DEF new
  <2>2. {"token", "access", "next"} \subseteq EntryFields
    BY DEF EntryFields
  <2> QED
    BY <1>1, <2>0, <2>1, <2>2 DEF Entry
<1>2. {"state", "access", "next"} \subseteq EntryFields
  BY DEF EntryFields
<1>3. \A x : Entry(v, [e EXCEPT !.state = x])
  BY <1>1, <1>2
<1>4. ASSUME NEW a \in Access \cup {None}, NEW t, Token(v, t)
      PROVE  Entry(v, [e EXCEPT !.state = "ok", !.access = a, !.next = t])
  <2> DEFINE b == [e EXCEPT !.state = "ok"]
             c == [b EXCEPT !.access = a]
  <2>1. Entry(v, b)
    BY <1>3
  <2>2. Entry(v, c)
    BY <1>1, <1>2, <1>4, <2>1
  <2>3. Entry(v, [c EXCEPT !.next = t])
    BY <1>1, <1>2, <1>4, <2>2
  <2> QED
    BY <2>3
<1> QED
  BY <1>3, <1>4

LEMMA RefreshServedStep == ASSUME SessionInv, NEW e \in shared, RefreshServed(e) PROVE SessionInv'
<1> DEFINE ok == Rotates(e.token) \/ Replays(e.token)
           a == Minted(e.token[1], TRUE)
           t == NextToken(e.token)
           x == IF ok THEN [e EXCEPT !.state = "ok", !.access = a, !.next = t] ELSE [e EXCEPT !.state = "ended"]
<1>1. Typed /\ StoreOK /\ Clock /\ Token(srv, e.token) /\ e.token # None
  BY DEF SessionInv, Typed, Entry
<1>2. srv' = Refreshed(e.token) /\ Later(srv, srv') /\ Token(srv', t)
  BY <1>1, RefreshGoesOn DEF RefreshServed
<1>3. a \in Access \cup {None}
  <2>1. e.token[1] \in Sessions
    BY <1>1 DEF Token, Refresh
  <2> QED
    BY <1>1, <2>1, Minting
<1>4. /\ shared' = (shared \ {e}) \cup {x} /\ UNCHANGED <<jar, clock, seen>>
      /\ req' = [q \in Slots |-> IF q \notin Waiting(e) THEN req[q]
                                 ELSE IF ok THEN Got(req[q], a, t) ELSE GotEnded(req[q])]
  BY DEF RefreshServed
<1> HIDE DEF a, t, ok
<1>5. Entry(srv', x)
  BY <1>1, <1>2, <1>3, Stands, EntryKept
<1>6. \A f \in shared' : Entry(srv', f)
  BY <1>1, <1>2, <1>4, <1>5, Stands
<1>7. \A q \in Slots : Request(srv', Got(req[q], a, t)) /\ Request(srv', GotEnded(req[q])) /\ Request(srv', req[q])
  BY <1>1, <1>2, <1>3, Stands, Outcomes
<1>8. req' = [q \in Slots |-> req'[q]] /\ \A q \in Slots : Request(srv', req'[q])
  BY <1>4, <1>7
<1>9. Clock' /\ Browser(srv', jar')
  BY <1>1, <1>2, <1>4, Stands DEF Clock
<1>10. /\ seen' = [lost |-> seen'.lost, crossed |-> seen'.crossed, said |-> seen'.said]
       /\ seen'.said = seen.said /\ seen.said \subseteq Sessions
  BY <1>1, <1>4 DEF Typed
<1> QED
  BY <1>2, <1>6, <1>8, <1>9, <1>10, Concluded

LEMMA RefreshLostStep == ASSUME SessionInv, NEW e \in shared, RefreshLost(e) PROVE SessionInv'
<1>1. Typed /\ StoreOK /\ Clock /\ Token(srv, e.token) /\ e.token # None
  BY DEF SessionInv, Typed, Entry
<1>2. Later(srv, srv')
  BY <1>1, RefreshGoesOn, Unchanging DEF RefreshLost
<1>3. /\ shared' = shared \ {e} /\ UNCHANGED <<jar, clock>>
      /\ req' = [q \in Slots |-> IF q \in Waiting(e) THEN GotNothing(req[q]) ELSE req[q]]
      /\ \E y : seen' = [seen EXCEPT !.lost = y]
  BY DEF RefreshLost
<1>4. \A f \in shared' : Entry(srv', f)
  BY <1>1, <1>2, <1>3, Stands
<1>5. \A q \in Slots : Request(srv', GotNothing(req[q])) /\ Request(srv', req[q])
  BY <1>1, <1>2, Stands, Outcomes
<1>6. req' = [q \in Slots |-> req'[q]] /\ \A q \in Slots : Request(srv', req'[q])
  BY <1>3, <1>5
<1>7. Clock' /\ Browser(srv', jar')
  BY <1>1, <1>2, <1>3, Stands DEF Clock
<1>8. /\ seen' = [lost |-> seen'.lost, crossed |-> seen'.crossed, said |-> seen'.said]
      /\ seen'.said = seen.said /\ seen.said \subseteq Sessions
  BY <1>1, <1>3, Histories DEF Typed
<1> QED
  BY <1>2, <1>4, <1>6, <1>7, <1>8, Concluded

LEMMA TradedStep == ASSUME SessionInv, NEW q \in Slots, NEW s \in Sessions, Traded(q, s) PROVE SessionInv'
<1> DEFINE r == req[q]
           a == Minted(s, TRUE)
           new == Plus(clearedSessionCookies, sessionCookies(a, <<s, 0>>))
           x == IF r.refresh # None THEN [r EXCEPT !.pc = "drop", !.sets = new]
                ELSE Answer([r EXCEPT !.sets = new], "ok")
<1>1. Typed /\ StoreOK /\ Clock
  BY DEF SessionInv, Typed
<1>2. Later(srv, srv') /\ Token(srv', <<s, 0>>)
  BY <1>1, Opening DEF Traded
<1>3. Request(srv', r)
  BY <1>1, <1>2, Stands
<1>4. Cookies(srv', new)
  <2>1. a \in Access \cup {None}
    BY <1>1, Minting
  <2> HIDE DEF a
  <2> QED
    BY <1>2, <2>1, PlainCookies, PlusCookies
<1>5. req' = [req EXCEPT ![q] = x] /\ UNCHANGED <<jar, shared, clock, seen>>
  BY DEF Traded
<1>6. Request(srv', x)
  <2> HIDE DEF new
  <2> DEFINE b == [r EXCEPT !.sets = new]
             d == [r EXCEPT !.pc = "drop"]
  <2>1. Request(srv', b) /\ Request(srv', d)
    BY <1>3, <1>4, Changed DEF Phases
  <2>2. Request(srv', [d EXCEPT !.sets = new])
    BY <1>4, <2>1, Changed
  <2>3. Request(srv', [r EXCEPT !.pc = "drop", !.sets = new])
    BY <2>2
  <2> QED
    BY <2>1, <2>3, Answers
<1> HIDE DEF x
<1>7. req' = [p \in Slots |-> req'[p]] /\ \A p \in Slots : Request(srv', req'[p])
  BY <1>1, <1>2, <1>5, <1>6, Placed
<1>8. Clock' /\ Browser(srv', jar') /\ \A e \in shared' : Entry(srv', e)
  BY <1>1, <1>2, <1>5, Stands DEF Clock
<1>9. /\ seen' = [lost |-> seen'.lost, crossed |-> seen'.crossed, said |-> seen'.said]
      /\ seen'.said = seen.said /\ seen.said \subseteq Sessions
  BY <1>1, <1>5 DEF Typed
<1> QED
  BY <1>2, <1>7, <1>8, <1>9, Concluded

\* Signing sessions out, or losing the call, and saying so only of what is over.
LEMMA Revoking ==
    ASSUME SessionInv, NEW q \in Slots, NEW x, Request(srv, x), req' = [req EXCEPT ![q] = x],
           UNCHANGED <<jar, shared, clock>>, NEW ss \in SUBSET Sessions, \A s \in ss : Live(s),
           NEW said \in SUBSET Sessions,
           \A s \in said : s \in ss \/ srv[s].state \in {"signed_out", "reuse"},
           Revocation(q, ss, said)
    PROVE  SessionInv'
<1>1. Typed /\ StoreOK /\ Clock
  BY DEF SessionInv, Typed
<1>2. Later(srv, srv')
  BY <1>1, SigningOut, Unchanging DEF Revocation
<1>3. Request(srv', x)
  BY <1>2, Carried
<1>4. req' = [p \in Slots |-> req'[p]] /\ \A p \in Slots : Request(srv', req'[p])
  BY <1>1, <1>2, <1>3, Placed
<1>5. Clock' /\ Browser(srv', jar') /\ \A e \in shared' : Entry(srv', e)
  BY <1>1, <1>2, Stands DEF Clock
<1>6. CASE srv' = SignedOut(ss) /\ seen' = [seen EXCEPT !.said = @ \cup said]
  <2>1. seen' = [seen EXCEPT !.said = seen.said \cup said]
    BY <1>6
  <2>2. /\ seen' = [lost |-> seen'.lost, crossed |-> seen'.crossed, said |-> seen'.said]
        /\ seen'.said = seen.said \cup said
    BY <1>1, <2>1, Histories
  <2>3. seen'.said \subseteq Sessions
    BY <1>1, <2>2 DEF Typed
  <2>4. \A s \in said : srv'[s].state \in {"signed_out", "reuse"}
    BY <1>1, <1>2, <1>6, SigningOut DEF Later
  <2> QED
    BY <1>2, <1>4, <1>5, <2>2, <2>3, <2>4, Concluded
<1>7. CASE UNCHANGED seen
  <2>1. /\ seen' = [lost |-> seen'.lost, crossed |-> seen'.crossed, said |-> seen'.said]
        /\ seen'.said = seen.said /\ seen.said \subseteq Sessions
    BY <1>1, <1>7 DEF Typed
  <2> QED
    BY <1>2, <1>4, <1>5, <2>1, Concluded
<1> QED
  BY <1>6, <1>7 DEF Revocation

LEMMA DroppedStep == ASSUME SessionInv, NEW q \in Slots, Dropped(q) PROVE SessionInv'
<1> DEFINE ss == EndedBy(req[q].refresh, None)
<1>1. Request(srv, Answer(req[q], "ok"))
  BY Answers DEF SessionInv, Typed
<1>2. ss \in SUBSET Sessions /\ \A s \in ss : Live(s)
  BY DEF EndedBy
<1> DEFINE said == {}
<1>3. /\ Revocation(q, ss, said) /\ req' = [req EXCEPT ![q] = Answer(req[q], "ok")]
      /\ UNCHANGED <<jar, shared, clock>>
  BY DEF Dropped
<1>4. said \in SUBSET Sessions /\ \A s \in said : s \in ss \/ srv[s].state \in {"signed_out", "reuse"}
  OBVIOUS
<1> HIDE DEF ss, said
<1> QED
  BY <1>1, <1>2, <1>3, <1>4, Revoking

LEMMA RevokedStep == ASSUME SessionInv, NEW q \in Slots, Revoked(q) PROVE SessionInv'
<1> DEFINE r == req[q]
           named == {t[1] : t \in {r.refresh, r.original} \ {None}}
           ss == EndedBy(r.refresh, r.access) \cup EndedBy(r.original, None)
           x == Answer([r EXCEPT !.sets = clearedSessionCookies], "ok")
<1>1. Request(srv, r) /\ StoreOK
  BY DEF SessionInv, Typed
<1>2. Request(srv, x)
  <2>1. Request(srv, [r EXCEPT !.sets = clearedSessionCookies])
    BY <1>1, PlainCookies, Changed
  <2> QED
    BY <2>1, Answers
<1>3. ss \in SUBSET Sessions /\ \A s \in ss : Live(s)
  BY DEF EndedBy
<1>4. named \in SUBSET Sessions /\ \A s \in named : s \in ss \/ srv[s].state \in {"signed_out", "reuse"}
  <2> SUFFICES ASSUME NEW t \in {r.refresh, r.original}, t # None
               PROVE  t[1] \in Sessions /\ (t[1] \in ss \/ srv[t[1]].state \in {"signed_out", "reuse"})
    OBVIOUS
  <2>1. t[1] \in Sessions /\ srv[t[1]].state # "none"
    BY <1>1 DEF Request, Token, Refresh
  <2>2. srv[t[1]].state \in {"none", "live", "signed_out", "reuse"}
    BY <1>1, <2>1, Stored, Sessioned
  <2>3. Live(t[1]) => t[1] \in ss
    BY <2>1 DEF EndedBy
  <2> QED
    BY <2>1, <2>2, <2>3 DEF Live
<1>5. Revocation(q, ss, named) /\ req' = [req EXCEPT ![q] = x] /\ UNCHANGED <<jar, shared, clock>>
  BY DEF Revoked
<1> HIDE DEF ss, named, x
<1> QED
  BY <1>2, <1>3, <1>4, <1>5, Revoking

\* Time passes, a shared refresh ends, the secret changes: no request, cookie or sign-out.
LEMMA Passing ==
    ASSUME SessionInv, Later(srv, srv'), Clock', UNCHANGED <<jar, req, seen>>, shared' \subseteq shared
    PROVE  SessionInv'
<1>1. Typed
  BY DEF SessionInv
<1>2. /\ req' = [q \in Slots |-> req'[q]] /\ \A q \in Slots : Request(srv', req'[q])
      /\ Browser(srv', jar') /\ \A e \in shared' : Entry(srv', e)
  BY <1>1, Stands DEF Typed
<1>3. /\ seen' = [lost |-> seen'.lost, crossed |-> seen'.crossed, said |-> seen'.said]
      /\ seen'.said = seen.said /\ seen.said \subseteq Sessions
  BY <1>1 DEF Typed
<1> QED
  BY <1>2, <1>3, Concluded

LEMMA PassingSteps ==
    ASSUME SessionInv, (\E e \in shared : ShareEnds(e)) \/ GraceEnds \/ AccessExpires \/ SecretChanges
    PROVE  SessionInv'
<1>1. StoreOK /\ Clock
  BY DEF SessionInv, Typed
<1>2. Later(srv, srv') /\ UNCHANGED <<jar, req, seen>> /\ shared' \subseteq shared
  BY <1>1, Unchanging, GrowsStale DEF ShareEnds, GraceEnds, AccessExpires, SecretChanges
<1>3. Clock'
  <2>1. CASE UNCHANGED clock
    BY <1>1, <2>1 DEF Clock
  <2>2. CASE AccessExpires
    BY <1>1, <2>2 DEF Clock, AccessExpires
  <2>3. CASE SecretChanges
    BY <1>1, <2>3 DEF Clock, SecretChanges
  <2> QED
    BY <2>1, <2>2, <2>3 DEF ShareEnds, GraceEnds
<1> QED
  BY <1>2, <1>3, Passing

LEMMA SessionInit == ASSUME Init PROVE SessionInv
<1>1. First \in Sessions
  BY WebSessionAssumption
<1>2. Clock /\ seen = [lost |-> seen.lost, crossed |-> seen.crossed, said |-> seen.said] /\ seen.said = {}
      /\ shared = {}
  BY DEF Init, Clock
<1>3. req = [q \in Slots |-> req[q]] /\ \A q \in Slots : Request(srv, req[q])
  BY IdleRequest DEF Init
<1>4. StoreOK
  <2>1. PICK live : srv = Fresh(live)
    BY DEF Init
  <2> DEFINE x(s) == [state |-> IF s \in live THEN "live" ELSE "none", gen |-> 0, fresh |-> 0]
  <2>2. srv = [s \in Sessions |-> x(s)]
    BY <2>1 DEF Fresh
  <2>3. \A s \in Sessions : x(s) \in Session /\ x(s).fresh <= x(s).gen
    BY DEF Session
  <2> HIDE DEF x
  <2> QED
    BY <2>2, <2>3 DEF StoreOK, Store
<1>5. Browser(srv, jar)
  <2>1. CASE srv = Fresh({First}) /\ \E a \in {None, Minted(First, TRUE)} :
                 jar = [access |-> a, refresh |-> <<First, 0>>, original |-> None]
    <3>1. PICK a \in Access \cup {None} : jar = [access |-> a, refresh |-> <<First, 0>>, original |-> None]
      BY <1>1, <1>2, <2>1, Minting
    <3>2. srv[First].state # "none" /\ srv[First].gen = 0
      BY <1>1, <2>1 DEF Fresh
    <3>3. Token(srv, <<First, 0>>) /\ Token(srv, None)
      BY <1>1, <3>2 DEF Token, Refresh
    <3>4. DOMAIN jar = Names
      BY <3>1 DEF Names
    <3> QED
      BY <3>1, <3>3, <3>4, PlainCookies DEF Browser
  <2>2. CASE jar = [n \in Names |-> None]
    <3>1. jar = clearedSessionCookies
      BY <2>2 DEF clearedSessionCookies
    <3> QED
      BY <2>2, <3>1, PlainCookies DEF Browser
  <2> QED
    BY <2>1, <2>2 DEF Init
<1>6. SignedOutIsOver
  BY <1>2 DEF SignedOutIsOver
<1> QED
  BY <1>2, <1>3, <1>4, <1>5, <1>6 DEF SessionInv, Typed

LEMMA SessionNext == ASSUME SessionInv, [Next]_vars PROVE SessionInv'
<1>1. CASE UNCHANGED vars
  <2>1. Later(srv, srv') /\ Clock'
    BY <1>1, Unchanging DEF SessionInv, Typed, Clock, vars
  <2> QED
    BY <1>1, <2>1, Passing DEF vars
<1>2. CASE Next
  BY <1>2, SendStep, RefreshServedStep, RefreshLostStep, SentStep, ResentStep, ImpersonatedStep,
     ImpersonateLostStep, TradedStep, DroppedStep, RevokedStep, LandStep, AbandonStep, PassingSteps DEF Next
<1> QED
  BY <1>1, <1>2

LEMMA Holds == SessionInv => TypeOK /\ SignedOutIsOver
<1> SUFFICES ASSUME SessionInv PROVE TypeOK /\ SignedOutIsOver
  OBVIOUS
<1>1. Typed
  BY DEF SessionInv
<1>2. \A t : Token(srv, t) => Issued(t) /\ t \in Refresh \cup {None}
  BY DEF Token, Issued
<1>3. /\ DOMAIN jar = Names /\ jar.access \in Access \cup {None}
      /\ Token(srv, jar.refresh) /\ Token(srv, jar.original)
  BY <1>1 DEF Typed, Browser, Cookies, Names
<1>4. ASSUME NEW q \in Slots
      PROVE  /\ req[q].pc \in Phases /\ Issued(req[q].refresh) /\ DOMAIN req[q].sets \subseteq Names
             /\ Carries(req[q], "refresh") => Issued(req[q].sets.refresh)
  <2>1. Request(srv, req[q])
    BY <1>1 DEF Typed
  <2> QED
    BY <1>2, <2>1 DEF Request, Cookies, Carries
<1>5. \A e \in shared : Issued(e.token) /\ Issued(e.next)
  BY <1>1, <1>2 DEF Typed, Entry
<1>6. \A s \in Sessions : /\ srv[s].state \in {"none", "live", "signed_out", "reuse"}
                            /\ srv[s].gen \in Nat /\ srv[s].fresh \in 0..srv[s].gen
  <2> TAKE s \in Sessions
  <2>1. srv[s] \in Session /\ srv[s].fresh <= srv[s].gen
    BY <1>1, Stored DEF Typed
  <2>2. srv[s].gen \in Nat /\ srv[s].fresh \in Nat /\ srv[s].state \in {"none", "live", "signed_out", "reuse"}
    BY <2>1, Sessioned
  <2> QED
    BY <2>1, <2>2
<1> QED
  BY <1>1, <1>2, <1>3, <1>4, <1>5, <1>6 DEF TypeOK, Typed, SessionInv, Phases

----------------------------------------------------------------------------
\* Every variable holds a value of its kind, and no cookie, request or shared
\* refresh holds a token of a session the API never issued or a generation it
\* never reached (Store.Refresh, lib/bff/session.ts).
THEOREM TypeCorrect == Spec => []TypeOK
<1>1. Init => SessionInv
  BY SessionInit
<1>2. SessionInv /\ [Next]_vars => SessionInv'
  BY SessionNext
<1> QED
  BY <1>1, <1>2, Holds, PTL DEF Spec

\* A sign-out that tells the person the session is revoked has ended it, and
\* it stays ended, whatever other requests and processes rotated its token in
\* between (POST /api/auth/logout, Store.RevokeToken).
THEOREM SignOutEnds == Spec => []SignedOutIsOver
<1>1. Init => SessionInv
  BY SessionInit
<1>2. SessionInv /\ [Next]_vars => SessionInv'
  BY SessionNext
<1> QED
  BY <1>1, <1>2, Holds, PTL DEF Spec

----------------------------------------------------------------------------
\* The browser's token stays redeemable: the inductive invariant

\* The token is not behind its live session's grace window.
Recent(v, t) == t = None \/ (v[t[1]].state = "live" => v[t[1]].fresh <= t[2])

\* The token is its session's current one.
Newest(v, t) == t = None \/ t[2] = v[t[1]].gen

Tokens(c) == {c[n] : n \in {"refresh", "original"} \cap DOMAIN c}

\* A handler between its refresh and its answer.
Handling == {"again", "send", "resend", "impersonate"}

\* What a request holds is recent, and what it will set is what it holds.
Held(v, r) ==
    /\ Token(v, r.came) /\ Recent(v, r.refresh) /\ Recent(v, r.original)
    /\ r.refresh # None => r.came # None
    /\ \A t \in Tokens(r.sets) : Recent(v, t)
    /\ r.pc = "refresh" => r.sets = NoCookies
    /\ r.pc \in Handling => /\ "refresh" \in DOMAIN r.sets => r.sets.refresh = r.refresh
                            /\ "original" \in DOMAIN r.sets => r.sets.original = None
    /\ r.pc \in Handling \cup {"refresh"} => Handled(r)
    /\ r.pc \in {"trade", "drop", "revoke"} => ~Handled(r)

\* The request brings the browser the current token, or takes its own away.
Brings(v, r) ==
    /\ Handled(r) /\ r.refresh # r.came /\ "refresh" \in DOMAIN r.sets
    /\ r.sets.refresh = None => "original" \in DOMAIN r.sets
    /\ \A t \in Tokens(r.sets) : Newest(v, t)

\* What a refresh answered with came after the token it was asked with.
Told(v, e) ==
    /\ e.state \in {"flying", "ok", "ended"}
    /\ e.state = "flying" => Recent(v, e.token)
    /\ e.state = "ok" => /\ e.next # None /\ e.next[1] = e.token[1] /\ e.token[2] < e.next[2]
                         /\ Recent(v, e.next)

Behind(v, t) == t # None /\ v[t[1]].state = "live" /\ ~Newest(v, t)

\* No session was ended for reuse.
Unharmed == \A s \in Sessions : srv[s].state # "reuse" /\ (srv[s].state = "none" => srv[s].gen = 0)

Holding == \A q \in Slots : Held(srv, req[q])

\* A refresh in flight has a request that waits for it, and is the only one of its token there.
Shares ==
    /\ \A e \in shared : Told(srv, e) /\ (e.state = "flying" => Waiting(e) # {})
    /\ \A e, f \in shared : e.iso = f.iso /\ e.token = f.token => e = f

\* A cookie that is behind has a request that brings its successor.
Chased ==
    \A t \in Tokens(jar) : Recent(srv, t) /\ (Behind(srv, t) => \E q \in Slots : Brings(srv, req[q]))

Orderly == Unharmed /\ Holding /\ Shares /\ Chased

OrderInv == seen.lost \/ seen.crossed \/ Orderly

\* No token is rotated more often within one grace window than the store
\* follows a retired one's successors (sessions.go, maxWalk).
Walkable == \A s \in Sessions : srv[s].gen - srv[s].fresh <= MaxWalk

----------------------------------------------------------------------------
\* What the handlers' steps leave of a request

Alike(x, r) == x.kind = r.kind /\ x.came = r.came /\ x.original = r.original
Same(x, r) == Alike(x, r) /\ x.refresh = r.refresh /\ x.sets = r.sets

LEMMA Placing ==
    ASSUME NEW r, DOMAIN r = Fields, NEW f \in Fields, NEW x
    PROVE  /\ [r EXCEPT ![f] = x][f] = x /\ DOMAIN [r EXCEPT ![f] = x] = Fields
           /\ \A g \in Fields : g # f => [r EXCEPT ![f] = x][g] = r[g]
OBVIOUS

LEMMA PcView ==
    ASSUME NEW v, NEW r, Request(v, r), NEW pc
    PROVE  /\ Same([r EXCEPT !.pc = pc], r) /\ [r EXCEPT !.pc = pc].pc = pc
           /\ [r EXCEPT !.pc = pc].iso = r.iso
<1>1. DOMAIN r = Fields
  BY DEF Request
<1>2. {"kind", "pc", "iso", "refresh", "original", "came", "sets"} \subseteq Fields
  BY DEF Fields
<1> QED
  BY <1>1, <1>2 DEF Same, Alike

LEMMA SetsView ==
    ASSUME NEW v, NEW r, Request(v, r), NEW c
    PROVE  /\ Alike([r EXCEPT !.sets = c], r) /\ [r EXCEPT !.sets = c].sets = c
           /\ [r EXCEPT !.sets = c].refresh = r.refresh /\ [r EXCEPT !.sets = c].pc = r.pc
<1>1. DOMAIN r = Fields
  BY DEF Request
<1>2. {"kind", "pc", "iso", "refresh", "original", "came", "sets"} \subseteq Fields
  BY DEF Fields
<1> QED
  BY <1>1, <1>2 DEF Alike

LEMMA AnswerView ==
    ASSUME NEW v, NEW r, Request(v, r), NEW s
    PROVE  Same(Answer(r, s), r) /\ Answer(r, s).pc = "answer"
<1>1. DOMAIN r = Fields
  BY DEF Request
<1>2. {"kind", "pc", "refresh", "original", "came", "sets", "status"} \subseteq Fields
  BY DEF Fields
<1> DEFINE a == [r EXCEPT !.pc = "answer"]
<1>3. Same(a, r) /\ a.pc = "answer" /\ DOMAIN a = Fields
  BY <1>1, <1>2 DEF Same, Alike
<1> HIDE DEF a
<1>4. Same([a EXCEPT !.status = s], a) /\ [a EXCEPT !.status = s].pc = a.pc
  BY <1>2, <1>3 DEF Same, Alike
<1>5. Answer(r, s) = [a EXCEPT !.status = s]
  BY DEF Answer, a
<1> QED
  BY <1>3, <1>4, <1>5 DEF Same, Alike

LEMMA TokensView ==
    /\ Tokens(NoCookies) = {}
    /\ \A c : Tokens(Plus(c, clearedSessionCookies)) = {None}
    /\ \A c, a, t : Tokens(Plus(c, sessionCookies(a, t))) =
           {t} \cup (IF "original" \in DOMAIN c THEN {c.original} ELSE {})
    /\ \A c : Tokens(c) = (IF "refresh" \in DOMAIN c THEN {c.refresh} ELSE {})
                       \cup (IF "original" \in DOMAIN c THEN {c.original} ELSE {})
<1>0. ASSUME NEW c
      PROVE  Tokens(c) = (IF "refresh" \in DOMAIN c THEN {c.refresh} ELSE {})
                     \cup (IF "original" \in DOMAIN c THEN {c.original} ELSE {})
  BY DEF Tokens
<1>1. Tokens(NoCookies) = {}
  BY <1>0 DEF NoCookies
<1>2. ASSUME NEW c PROVE Tokens(Plus(c, clearedSessionCookies)) = {None}
  <2> DEFINE p == Plus(c, clearedSessionCookies)
  <2>1. {"refresh", "original"} \subseteq DOMAIN p /\ p.refresh = None /\ p.original = None
    BY DEF Plus, clearedSessionCookies, Names
  <2> HIDE DEF p
  <2>2. Tokens(p) = {None}
    BY <1>0, <2>1
  <2> QED
    BY <2>2 DEF p
<1>3. ASSUME NEW c, NEW a, NEW t
      PROVE  Tokens(Plus(c, sessionCookies(a, t))) = {t} \cup (IF "original" \in DOMAIN c THEN {c.original} ELSE {})
  <2> DEFINE p == Plus(c, sessionCookies(a, t))
  <2>1. /\ "refresh" \in DOMAIN p /\ p.refresh = t
        /\ "original" \in DOMAIN p <=> "original" \in DOMAIN c
        /\ "original" \in DOMAIN c => p.original = c.original
    BY DEF Plus, sessionCookies
  <2> HIDE DEF p
  <2>2. Tokens(p) = {t} \cup (IF "original" \in DOMAIN c THEN {c.original} ELSE {})
    BY <1>0, <2>1
  <2> QED
    BY <2>2 DEF p
<1> QED
  BY <1>0, <1>1, <1>2, <1>3

LEMMA EndView ==
    ASSUME NEW v, NEW r, Request(v, r)
    PROVE  LET x == endSession(r)
           IN  /\ Alike(x, r) /\ x.refresh = None /\ x.pc = r.pc /\ Request(v, x)
               /\ {"refresh", "original"} \subseteq DOMAIN x.sets /\ x.sets.refresh = None /\ x.sets.original = None
               /\ Tokens(x.sets) = {None}
<1> DEFINE c == Plus(r.sets, clearedSessionCookies)
           a == [r EXCEPT !.access = None]
           b == [a EXCEPT !.refresh = None]
           x == [b EXCEPT !.sets = c]
<1>1. DOMAIN r = Fields /\ {"kind", "pc", "access", "refresh", "original", "came", "sets"} \subseteq Fields
  BY DEF Request, Fields
<1>2. Same(a, r) /\ a.pc = r.pc /\ DOMAIN a = Fields
  BY <1>1 DEF Same, Alike
<1>3. Alike(b, a) /\ b.pc = a.pc /\ b.refresh = None /\ DOMAIN b = Fields
  <2> HIDE DEF a
  <2> QED
    BY <1>1, <1>2 DEF Alike
<1>4. Alike(x, b) /\ x.pc = b.pc /\ x.refresh = b.refresh /\ x.sets = c
  <2> HIDE DEF a, b, c
  <2> QED
    BY <1>1, <1>3 DEF Alike
<1>5. endSession(r) = x
  BY <1>1 DEF endSession
<1>6. {"refresh", "original"} \subseteq DOMAIN c /\ c.refresh = None /\ c.original = None /\ Tokens(c) = {None}
  BY TokensView DEF Plus, clearedSessionCookies, Names
<1> HIDE DEF a, b, c, x
<1>7. Alike(x, r) /\ x.refresh = None /\ x.pc = r.pc
  BY <1>2, <1>3, <1>4 DEF Same, Alike
<1> QED
  BY <1>4, <1>5, <1>6, <1>7, Ends

LEMMA GotView ==
    ASSUME NEW v, NEW r, Request(v, r), NEW a \in Access \cup {None}, NEW t, Token(v, t)
    PROVE  LET x == Got(r, a, t)
           IN  /\ Alike(x, r) /\ x.refresh = t /\ x.sets = Plus(r.sets, sessionCookies(a, t))
               /\ x.pc \in {"resend", "send", "impersonate"}
<1> DEFINE c == Plus(r.sets, sessionCookies(a, t))
           d == [r EXCEPT !.access = a]
           e == [d EXCEPT !.refresh = t]
           s == [e EXCEPT !.sets = c]
           y == IF r.pc = "again" THEN [s EXCEPT !.pc = "resend"] ELSE AfterEnsure(s)
<1>1. DOMAIN r = Fields /\ {"kind", "pc", "access", "refresh", "original", "came", "sets"} \subseteq Fields
  BY DEF Request, Fields
<1>2. Same(d, r) /\ DOMAIN d = Fields
  BY <1>1 DEF Same, Alike
<1>3. Alike(e, d) /\ e.refresh = t /\ DOMAIN e = Fields
  <2> HIDE DEF d
  <2> QED
    BY <1>1, <1>2 DEF Alike
<1>4. Alike(s, e) /\ s.refresh = t /\ s.sets = c /\ DOMAIN s = Fields
  <2> HIDE DEF d, e, c
  <2> QED
    BY <1>1, <1>3 DEF Alike
<1>5. \A pc : Same([s EXCEPT !.pc = pc], s) /\ [s EXCEPT !.pc = pc].pc = pc
  <2> HIDE DEF s
  <2> QED
    BY <1>1, <1>4 DEF Same, Alike
<1>6. Got(r, a, t) = y
  BY <1>1 DEF Got
<1> HIDE DEF s
<1>7. Same(y, s) /\ y.pc \in {"resend", "send", "impersonate"}
  BY <1>5 DEF AfterEnsure
<1> HIDE DEF d, e, y
<1> QED
  BY <1>2, <1>3, <1>4, <1>6, <1>7 DEF Same, Alike

----------------------------------------------------------------------------
\* The handlers' steps keep what a request holds, and what it brings

\* A request whose tokens are all recent.
Recents(v, r) ==
    /\ Token(v, r.came) /\ Recent(v, r.refresh) /\ Recent(v, r.original)
    /\ r.refresh # None => r.came # None
    /\ \A t \in Tokens(r.sets) : Recent(v, t)

LEMMA HeldAnswer ==
    ASSUME NEW v, NEW r, Request(v, r), Recents(v, r), NEW s
    PROVE  Held(v, Answer(r, s)) /\ (Brings(v, r) => Brings(v, Answer(r, s)))
BY AnswerView DEF Same, Alike, Held, Recents, Brings, Handled, Handling

LEMMA EndRecents ==
    ASSUME NEW v, NEW r, Request(v, r), Recents(v, r)
    PROVE  Request(v, endSession(r)) /\ Recents(v, endSession(r))
<1> DEFINE x == endSession(r)
<1>1. Recent(v, None)
  BY DEF Recent
<1>2. Alike(x, r) /\ x.refresh = None /\ Request(v, x) /\ Tokens(x.sets) = {None}
  BY EndView
<1> HIDE DEF x
<1>3. Recents(v, x)
  BY <1>1, <1>2 DEF Alike, Recents
<1> QED
  BY <1>2, <1>3 DEF x

LEMMA EndBrings ==
    ASSUME NEW v, NEW r, Request(v, r), Recents(v, r), Handled(r), Brings(v, r) \/ r.refresh # None
    PROVE  Brings(v, endSession(r))
<1> DEFINE x == endSession(r)
<1>1. r.came # None
  BY DEF Brings, Recents
<1>2. Newest(v, None)
  BY DEF Newest
<1>3. /\ Alike(x, r) /\ x.refresh = None /\ Tokens(x.sets) = {None}
      /\ {"refresh", "original"} \subseteq DOMAIN x.sets
  BY EndView
<1> HIDE DEF x
<1>4. Brings(v, x)
  BY <1>1, <1>2, <1>3 DEF Alike, Brings, Handled
<1> QED
  BY <1>4 DEF x

LEMMA AnswerRecents ==
    ASSUME NEW v, NEW r, Request(v, r), Recents(v, r), NEW s
    PROVE  /\ Request(v, [Answer(r, s) EXCEPT !.sets = NoCookies])
           /\ Held(v, [Answer(r, s) EXCEPT !.sets = NoCookies])
<1> DEFINE a == Answer(r, s)
           x == [a EXCEPT !.sets = NoCookies]
<1>1. Request(v, a) /\ Same(a, r) /\ a.pc = "answer"
  BY Answers, AnswerView
<1> HIDE DEF a
<1>2. Request(v, x) /\ Alike(x, a) /\ x.sets = NoCookies /\ x.refresh = a.refresh /\ x.pc = a.pc
  BY <1>1, SetsView, Changed, PlainCookies
<1>3. Tokens(NoCookies) = {}
  BY TokensView
<1> HIDE DEF x
<1>4. Held(v, x)
  BY <1>1, <1>2, <1>3 DEF Same, Alike, Held, Recents, Handling
<1> QED
  BY <1>2, <1>4 DEF x, a

LEMMA HeldWithout ==
    ASSUME NEW v, NEW r, Request(v, r), Recents(v, r), Handled(r), r.refresh = None,
           "refresh" \in DOMAIN r.sets => r.sets.refresh = None,
           "original" \in DOMAIN r.sets => r.sets.original = None
    PROVE  Held(v, Without(r))
<1>1. Held(v, [r EXCEPT !.pc = "send"])
  BY PcView DEF Same, Alike, Held, Recents, Handled, Handling
<1>2. \A s : Held(v, Answer(r, s)) /\ Held(v, [Answer(r, s) EXCEPT !.sets = NoCookies])
  BY HeldAnswer, AnswerRecents
<1>3. \A s : Held(v, Answer(endSession(r), s))
  BY EndRecents, HeldAnswer
<1> QED
  BY <1>1, <1>2, <1>3 DEF Without

LEMMA HeldRefused ==
    ASSUME NEW v, NEW r, Request(v, r), Recents(v, r), Handled(r)
    PROVE  Held(v, Refused(r)) /\ (Brings(v, r) => Brings(v, Refused(r)))
<1>1. \A s : Held(v, Answer(r, s)) /\ (Brings(v, r) => Brings(v, Answer(r, s)))
  BY HeldAnswer
<1>2. \A s : /\ Held(v, Answer(endSession(r), s))
             /\ Brings(v, r) => Brings(v, Answer(endSession(r), s))
  BY EndRecents, EndBrings, HeldAnswer
<1> QED
  BY <1>1, <1>2 DEF Refused

LEMMA HeldGotEnded ==
    ASSUME NEW v, NEW r, Request(v, r), Held(v, r), r.pc \in {"refresh", "again"}
    PROVE  Held(v, GotEnded(r)) /\ (Brings(v, r) => Brings(v, GotEnded(r)))
<1> DEFINE x == endSession(r)
<1>1. Recents(v, r) /\ Handled(r)
  BY DEF Held, Recents, Handling
<1>2. Request(v, x) /\ Recents(v, x) /\ (Brings(v, r) => Brings(v, x))
  BY <1>1, EndRecents, EndBrings
<1>3. /\ Handled(x) /\ x.refresh = None
      /\ "refresh" \in DOMAIN x.sets => x.sets.refresh = None
      /\ "original" \in DOMAIN x.sets => x.sets.original = None
  BY <1>1, EndView DEF Alike, Handled
<1> HIDE DEF x
<1>4. Held(v, Without(x)) /\ Held(v, Refused(x)) /\ (Brings(v, x) => Brings(v, Refused(x)))
  BY <1>2, <1>3, HeldWithout, HeldRefused
<1>5. GotEnded(r) = IF r.pc = "again" THEN Refused(x) ELSE Without(x)
  BY DEF GotEnded, x
<1>6. r.pc = "refresh" => ~Brings(v, r)
  BY DEF Held, Brings, NoCookies
<1> QED
  BY <1>2, <1>4, <1>5, <1>6

LEMMA HeldGotNothing ==
    ASSUME NEW v, NEW r, Request(v, r), Held(v, r), r.pc \in {"refresh", "again"}
    PROVE  Held(v, GotNothing(r)) /\ (Brings(v, r) => Brings(v, GotNothing(r)))
<1>1. Recents(v, r) /\ Handled(r)
  BY DEF Held, Recents, Handling
<1>2. /\ Held(v, Refused(r)) /\ (Brings(v, r) => Brings(v, Refused(r)))
      /\ \A s : Held(v, Answer(r, s)) /\ Held(v, [Answer(r, s) EXCEPT !.sets = NoCookies])
  BY <1>1, HeldRefused, HeldAnswer, AnswerRecents
<1>3. r.pc = "refresh" => ~Brings(v, r) /\ "refresh" \notin DOMAIN r.sets /\ "original" \notin DOMAIN r.sets
  BY DEF Held, Brings, NoCookies
<1>4. r.pc = "refresh" => Held(v, AfterEnsure(r))
  BY <1>1, <1>3, PcView DEF Same, Alike, Held, Recents, Handled, Handling, AfterEnsure
<1>5. CASE r.pc = "again"
  BY <1>2, <1>5 DEF GotNothing
<1>6. CASE r.pc = "refresh"
  <2>1. \/ GotNothing(r) = Answer(r, "401")
        \/ GotNothing(r) = [Answer(r, "502") EXCEPT !.sets = NoCookies]
        \/ GotNothing(r) = AfterEnsure(r)
    BY <1>6 DEF GotNothing
  <2> QED
    BY <1>2, <1>3, <1>4, <1>6, <2>1
<1> QED
  BY <1>5, <1>6

LEMMA HeldGot ==
    ASSUME NEW v, NEW r, Request(v, r), Held(v, r), r.pc \in {"refresh", "again"}, r.refresh # None,
           NEW a \in Access \cup {None}, NEW t, Token(v, t), Recent(v, t)
    PROVE  /\ Held(v, Got(r, a, t))
           /\ t # None /\ t # r.came /\ Newest(v, t) => Brings(v, Got(r, a, t))
<1> DEFINE x == Got(r, a, t)
           c == Plus(r.sets, sessionCookies(a, t))
<1>1. Alike(x, r) /\ x.refresh = t /\ x.sets = c /\ x.pc \in {"resend", "send", "impersonate"}
  BY GotView
<1>2. Handled(r) /\ r.came # None /\ Token(v, r.came) /\ Recent(v, r.original)
  BY DEF Held, Handling
<1>3. "original" \in DOMAIN r.sets => r.sets.original = None
  BY DEF Held, Handling, NoCookies
<1>4. /\ "refresh" \in DOMAIN c /\ c.refresh = t
      /\ "original" \in DOMAIN c => c.original = None
  BY <1>3 DEF Plus, sessionCookies
<1>5. Tokens(c) \subseteq {t, None}
  BY <1>3, TokensView
<1>6. Recent(v, None) /\ Newest(v, None)
  BY DEF Recent, Newest
<1> HIDE DEF x, c
<1>7. Held(v, x)
  BY <1>1, <1>2, <1>4, <1>5, <1>6 DEF Alike, Held, Handled, Handling
<1>8. t # None /\ t # r.came /\ Newest(v, t) => Brings(v, x)
  BY <1>1, <1>2, <1>4, <1>5, <1>6 DEF Alike, Brings, Handled
<1> QED
  BY <1>7, <1>8 DEF x

----------------------------------------------------------------------------
\* A request begins

\* A request as it is read from the cookies, all of them recent.
Begun(v, r) ==
    /\ Request(v, r) /\ Recents(v, r) /\ r.pc = "idle" /\ r.sets = NoCookies
    /\ r.kind \in {"api", "me", "login", "impersonate", "exchange", "logout", "stop"}

LEMMA ReadView ==
    ASSUME NEW kind, NEW iso, NEW c
    PROVE  LET r == readSession(kind, iso, c)
           IN  /\ r.kind = kind /\ r.iso = iso /\ r.refresh = c.refresh /\ r.came = c.refresh
               /\ r.original = c.original /\ r.pc = "idle" /\ r.sets = NoCookies
<1> DEFINE i == Idle
<1>0. i = [kind |-> None, pc |-> "idle", iso |-> None, access |-> None, refresh |-> None,
           original |-> None, came |-> None, sets |-> NoCookies, status |-> None]
  BY DEF Idle
<1>1. readSession(kind, iso, c) =
          [i EXCEPT !.kind = kind, !.iso = iso, !.access = c.access, !.refresh = c.refresh,
                    !.original = c.original, !.came = c.refresh]
  BY DEF readSession
<1> HIDE DEF i
<1>2. readSession(kind, iso, c) =
          [kind |-> kind, pc |-> "idle", iso |-> iso, access |-> c.access, refresh |-> c.refresh,
           original |-> c.original, came |-> c.refresh, sets |-> NoCookies, status |-> None]
  BY <1>0, <1>1
<1> QED
  BY <1>2

LEMMA ReadBegun ==
    ASSUME NEW v, NEW c, Browser(v, c), \A t \in Tokens(c) : Recent(v, t), NEW iso,
           NEW kind \in {"api", "me", "login", "impersonate", "exchange", "logout", "stop"}
    PROVE  Begun(v, readSession(kind, iso, c))
<1> DEFINE r == readSession(kind, iso, c)
<1>1. Request(v, r)
  BY Reads
<1>2. /\ r.kind = kind /\ r.iso = iso /\ r.refresh = c.refresh /\ r.came = c.refresh
      /\ r.original = c.original /\ r.pc = "idle" /\ r.sets = NoCookies
  BY ReadView
<1>3. {c.refresh, c.original} \subseteq Tokens(c) /\ Token(v, c.refresh)
  BY DEF Tokens, Browser, Cookies, Names
<1>4. Tokens(NoCookies) = {}
  BY TokensView
<1> HIDE DEF r
<1>5. Recents(v, r)
  BY <1>2, <1>3, <1>4 DEF Recents
<1>6. Begun(v, r)
  BY <1>1, <1>2, <1>5 DEF Begun
<1> QED
  BY <1>6 DEF r

LEMMA BegunHeld ==
    ASSUME NEW v, NEW r, Begun(v, r), NEW pc,
           pc \in Handling \cup {"refresh"} => Handled(r),
           pc \in {"trade", "drop", "revoke"} => ~Handled(r)
    PROVE  Held(v, [r EXCEPT !.pc = pc])
<1> DEFINE x == [r EXCEPT !.pc = pc]
<1>1. Same(x, r) /\ x.pc = pc
  BY PcView DEF Begun
<1>2. r.sets = NoCookies /\ Recents(v, r)
  BY DEF Begun
<1>3. "refresh" \notin DOMAIN NoCookies /\ "original" \notin DOMAIN NoCookies
  BY DEF NoCookies
<1> HIDE DEF x
<1>4. Held(v, x)
  BY <1>1, <1>2, <1>3 DEF Same, Alike, Held, Recents, Handled, Handling
<1> QED
  BY <1>4 DEF x

LEMMA JoinHeld ==
    ASSUME NEW v, NEW r, NEW entries, NEW pc \in {"refresh", "again"}, Request(v, r), r.refresh # None,
           Held(v, [r EXCEPT !.pc = pc]),
           \A e \in entries : Entry(v, e) /\ Told(v, e) /\ Token(v, e.token)
    PROVE  /\ Held(v, Joined(r, pc, entries))
           /\ pc = "again" /\ Brings(v, r) /\ StoreOK /\ v = srv /\ r.sets.refresh = r.refresh
                => Brings(v, Joined(r, pc, entries))
<1> DEFINE w == [r EXCEPT !.pc = pc]
           e == CHOOSE x \in EntryOf(r, entries) : TRUE
<1>1. Request(v, w) /\ Same(w, r) /\ w.pc = pc
  BY PcView, Changed DEF Phases
<1>2. Brings(v, r) => Brings(v, w)
  BY <1>1 DEF Same, Alike, Brings, Handled
<1>3. CASE EntryOf(r, entries) = {}
  BY <1>2, <1>3 DEF Joined
<1>4. CASE EntryOf(r, entries) # {}
  <2>1. e \in entries /\ e.token = r.refresh
    BY <1>4 DEF EntryOf
  <2> HIDE DEF e
  <2>2. Entry(v, e) /\ Told(v, e) /\ w.refresh # None
    BY <1>1, <2>1 DEF Same
  <2>3. Held(v, GotEnded(w)) /\ (Brings(v, w) => Brings(v, GotEnded(w)))
    BY <1>1, HeldGotEnded
  <2>4. e.state = "ok" => Held(v, Got(w, e.access, e.next))
    BY <1>1, <2>2, HeldGot DEF Entry, Told
  <2>5. e.state = "ok" /\ StoreOK /\ v = srv /\ r.sets.refresh = r.refresh => ~Brings(v, r)
    <3> SUFFICES ASSUME e.state = "ok", StoreOK, v = srv, r.sets.refresh = r.refresh, Brings(v, r) PROVE FALSE
      OBVIOUS
    <3>1. Newest(srv, e.token) /\ e.token # None
      BY <2>1, <2>2 DEF Brings, Tokens, Entry
    <3>2. /\ e.next # None /\ e.next[1] = e.token[1] /\ e.token[2] < e.next[2]
          /\ Token(srv, e.token) /\ Token(srv, e.next)
      BY <2>2 DEF Told, Entry
    <3>3. e.token[2] = srv[e.token[1]].gen /\ e.next[2] <= srv[e.token[1]].gen
          /\ e.token[1] \in Sessions /\ e.token[2] \in Nat /\ e.next[2] \in Nat
      BY <3>1, <3>2 DEF Newest, Token, Refresh
    <3> QED
      BY <3>2, <3>3
  <2>6. Joined(r, pc, entries) = IF e.state = "flying" THEN w
                                 ELSE IF e.state = "ok" THEN Got(w, e.access, e.next) ELSE GotEnded(w)
    BY <1>4 DEF Joined, e
  <2> HIDE DEF w
  <2> QED
    BY <1>2, <2>3, <2>4, <2>5, <2>6 DEF w
<1> QED
  BY <1>3, <1>4

LEMMA BeginHeld ==
    ASSUME NEW v, NEW r, NEW entries, Begun(v, r), \A e \in entries : Entry(v, e) /\ Told(v, e)
    PROVE  Held(v, Begin(r, entries))
<1>0. Request(v, r) /\ Recents(v, r) /\ Tokens(NoCookies) = {}
  BY TokensView DEF Begun
<1>1. CASE r.kind \in {"exchange", "logout"}
  BY <1>1, BegunHeld DEF Begin, Handled, Handling
<1>2. CASE r.kind = "stop"
  <2> DEFINE c == Plus([access |-> None, original |-> None],
                       IF r.original # None THEN [refresh |-> r.original] ELSE NoCookies)
             x == [r EXCEPT !.sets = c]
  <2>1. Tokens(c) \subseteq {None, r.original}
    <3>1. CASE r.original # None
      <4>1. "refresh" \in DOMAIN c /\ "original" \in DOMAIN c /\ c.refresh = r.original /\ c.original = None
        BY <3>1 DEF Plus
      <4> HIDE DEF c
      <4> QED
        BY <4>1, TokensView
    <3>2. CASE r.original = None
      <4>1. "refresh" \notin DOMAIN c /\ "original" \in DOMAIN c /\ c.original = None
        BY <3>2 DEF Plus, NoCookies
      <4> HIDE DEF c
      <4> QED
        BY <4>1, TokensView
    <3> QED
      BY <3>1, <3>2
  <2>2. Cookies(v, c)
    <3>1. Token(v, None) /\ Token(v, r.original) /\ None \in Access \cup {None}
      BY <1>0 DEF Token, Request
    <3> QED
      BY <3>1, PlusCookies, PlainCookies
  <2> HIDE DEF c
  <2>3. Request(v, x) /\ Alike(x, r) /\ x.sets = c /\ x.refresh = r.refresh
    BY <1>0, <2>2, Changed, SetsView
  <2> HIDE DEF x
  <2>4. Recents(v, x)
    BY <1>0, <2>1, <2>3 DEF Alike, Recents, Recent
  <2>5. Held(v, Answer(x, "ok"))
    BY <2>3, <2>4, HeldAnswer
  <2> QED
    BY <1>2, <2>5 DEF Begin, Stopped, x, c
<1>3. CASE Handled(r)
  <2>1. Held(v, AfterEnsure(r))
    BY <1>3, BegunHeld DEF AfterEnsure, Handling
  <2>2. r.refresh # None => Held(v, Joined(r, "refresh", entries))
    <3> SUFFICES ASSUME r.refresh # None PROVE Held(v, Joined(r, "refresh", entries))
      OBVIOUS
    <3>1. Held(v, [r EXCEPT !.pc = "refresh"])
      BY <1>3, BegunHeld
    <3>2. \A e \in entries : Token(v, e.token)
      BY DEF Entry
    <3> QED
      BY <1>0, <3>1, <3>2, JoinHeld
  <2>3. r.refresh = None => Held(v, Without(r))
    BY <1>0, <1>3, HeldWithout DEF Begun, NoCookies
  <2>4. r.kind = "impersonate" /\ r.refresh # None => Usable(r.access) \/ Needs(r)
    BY DEF Needs
  <2>5. \/ Ensured(r, entries) = AfterEnsure(r)
        \/ r.refresh # None /\ Ensured(r, entries) = Joined(r, "refresh", entries)
        \/ r.refresh = None /\ Ensured(r, entries) = Without(r)
    BY DEF Ensured, Needs, Usable
  <2>6. Begin(r, entries) = Ensured(r, entries)
    BY <1>3 DEF Begin, Handled
  <2> QED
    BY <2>1, <2>2, <2>3, <2>5, <2>6
<1> QED
  BY <1>1, <1>2, <1>3 DEF Begun, Handled

LEMMA NextHeld ==
    ASSUME NEW v, NEW r, NEW iso, NEW c, NEW entries, Browser(v, c), \A t \in Tokens(c) : Recent(v, t),
           \A e \in entries : Entry(v, e) /\ Told(v, e)
    PROVE  Held(v, Next_(r, iso, c, entries))
<1>1. Held(v, Begin(readSession("login", iso, c), entries))
  BY ReadBegun, BeginHeld
<1>2. Held(v, handleAuthFailure(c))
  BY ReadBegun, BeginHeld DEF handleAuthFailure
<1>3. Held(v, Idle)
  <2>1. Tokens(NoCookies) = {}
    BY TokensView
  <2> QED
    BY <2>1 DEF Held, Idle, Handling, Handled, Token, Recent
<1> QED
  BY <1>1, <1>2, <1>3 DEF Next_

----------------------------------------------------------------------------
\* Every step keeps the order

\* w is what the sessions v may become with no grace window closed.
Steady(v, w) ==
    \A s \in Sessions : w[s].state = "live" =>
        \/ v[s].state = "live" /\ w[s].fresh = v[s].fresh
        \/ v[s].state = "none"

LEMMA SteadyRecent ==
    ASSUME NEW v, NEW w, Later(v, w), Steady(v, w)
    PROVE  /\ \A t : Token(v, t) /\ Recent(v, t) => Recent(w, t)
           /\ \A r : Request(v, r) /\ Held(v, r) => Held(w, r)
           /\ \A e : Entry(v, e) /\ Told(v, e) => Told(w, e)
           /\ \A c : Cookies(v, c) => \A t \in Tokens(c) : Recent(v, t) => Recent(w, t)
<1>1. ASSUME NEW t, Token(v, t), Recent(v, t) PROVE Recent(w, t)
  BY <1>1 DEF Token, Refresh, Recent, Steady
<1>2. ASSUME NEW c, Cookies(v, c), NEW t \in Tokens(c) PROVE Token(v, t)
  BY <1>2 DEF Cookies, Tokens
<1>3. ASSUME NEW r, Request(v, r), Held(v, r) PROVE Held(w, r)
  <2>1. Token(v, r.refresh) /\ Token(v, r.original) /\ Cookies(v, r.sets)
    BY <1>3 DEF Request
  <2>2. Token(w, r.came)
    BY <1>3, Carried DEF Held
  <2>3. \A t \in Tokens(r.sets) : Recent(w, t)
    BY <1>1, <1>2, <1>3, <2>1 DEF Held
  <2>4. Recent(w, r.refresh) /\ Recent(w, r.original)
    BY <1>1, <1>3, <2>1 DEF Held
  <2> QED
    BY <1>3, <2>2, <2>3, <2>4 DEF Held
<1>4. ASSUME NEW e, Entry(v, e), Told(v, e) PROVE Told(w, e)
  BY <1>1, <1>4 DEF Entry, Told
<1> QED
  BY <1>1, <1>2, <1>3, <1>4

\* The generations are as they were: what is newest is so still.
LEMMA SameNewest ==
    ASSUME NEW v, NEW w, \A s \in Sessions : w[s].gen = v[s].gen
    PROVE  /\ \A t : Token(v, t) => (Newest(v, t) <=> Newest(w, t))
           /\ \A r : Request(v, r) /\ Brings(v, r) => Brings(w, r)
<1>1. ASSUME NEW t, Token(v, t) PROVE Newest(v, t) <=> Newest(w, t)
  BY <1>1 DEF Token, Refresh, Newest
<1>2. ASSUME NEW r, Request(v, r), Brings(v, r) PROVE Brings(w, r)
  <2>1. \A t \in Tokens(r.sets) : Token(v, t)
    BY <1>2 DEF Request, Cookies, Tokens
  <2> QED
    BY <1>1, <1>2, <2>1 DEF Brings
<1> QED
  BY <1>1, <1>2

LEMMA CookieTokens ==
    ASSUME NEW v, NEW c, Cookies(v, c)
    PROVE  \A t \in Tokens(c) : Token(v, t)
BY DEF Cookies, Tokens

\* One request goes on, the others wait for what they waited for.
LEMMA StillWaiting ==
    ASSUME NEW q \in Slots, NEW x, req' = [req EXCEPT ![q] = x], req = [p \in Slots |-> req[p]],
           req[q].pc \notin {"refresh", "again"}, Shares, Steady(srv, srv'), Later(srv, srv'), Typed,
           NEW e \in shared
    PROVE  Told(srv', e) /\ (e.state = "flying" => Waiting(e)' # {})
<1>1. Told(srv', e)
  BY SteadyRecent DEF Shares, Typed
<1>2. \A p \in Waiting(e) : p \in Waiting(e)'
  BY DEF Waiting
<1> QED
  BY <1>1, <1>2 DEF Shares

\* The step of a request that shares no refresh.
LEMMA GoesOnAlone ==
    ASSUME SessionInv, Orderly, NEW q \in Slots, NEW x, req' = [req EXCEPT ![q] = x],
           req[q].pc \notin {"refresh", "again"}, UNCHANGED <<jar, shared>>,
           Later(srv, srv'), Steady(srv, srv'), \A s \in Sessions : srv'[s].gen = srv[s].gen,
           Unharmed', Held(srv', x), Brings(srv, req[q]) => Brings(srv', x)
    PROVE  Orderly'
<1>1. Typed /\ req = [p \in Slots |-> req[p]] /\ \A p \in Slots : Request(srv, req[p])
  BY DEF SessionInv, Typed
<1>2. \A p \in Slots : req'[p] = IF p = q THEN x ELSE req[p]
  BY <1>1
<1>3. Holding'
  BY <1>1, <1>2, SteadyRecent DEF Orderly, Holding
<1>4. Shares'
  <2>1. \A e \in shared : Told(srv', e) /\ (e.state = "flying" => Waiting(e)' # {})
    BY <1>1, StillWaiting DEF Orderly
  <2> QED
    BY <2>1 DEF Orderly, Shares
<1>5. Chased'
  <2> SUFFICES ASSUME NEW t \in Tokens(jar)
               PROVE  Recent(srv', t) /\ (Behind(srv', t) => \E p \in Slots : Brings(srv', req'[p]))
    BY DEF Chased
  <2>1. Token(srv, t) /\ Recent(srv, t) /\ (Behind(srv, t) => \E p \in Slots : Brings(srv, req[p]))
    BY <1>1, CookieTokens DEF Typed, Browser, Orderly, Chased
  <2>2. Recent(srv', t)
    BY <2>1, SteadyRecent
  <2>3. Behind(srv', t) => Behind(srv, t)
    BY <2>1, SameNewest DEF Behind, Steady, Token, Refresh
  <2>4. \A p \in Slots : Brings(srv, req[p]) => Brings(srv', req'[p])
    BY <1>1, <1>2, SameNewest
  <2> QED
    BY <2>1, <2>2, <2>3, <2>4
<1> QED
  BY <1>3, <1>4, <1>5 DEF Orderly

\* The step of a request that opens a refresh, or joins one.
LEMMA OpenedShares ==
    ASSUME SessionInv, Orderly, NEW q \in Slots, NEW r, Request(srv, r), NEW pc \in {"refresh", "again"},
           req' = [req EXCEPT ![q] = Joined(r, pc, shared)], req[q].pc \notin {"refresh", "again"},
           r.refresh # None, Recent(srv, r.refresh), srv' = srv, shared' = Opened(r, shared)
    PROVE  Shares'
<1>1. Typed /\ req = [p \in Slots |-> req[p]] /\ Later(srv, srv') /\ Steady(srv, srv')
  BY Unchanging DEF SessionInv, Typed, Steady
<1> DEFINE x == Joined(r, pc, shared)
           new == [iso |-> r.iso, token |-> r.refresh, state |-> "flying", access |-> None, next |-> None]
<1>2. req'[q] = x
  BY <1>1
<1>3. \A e \in shared : Told(srv', e) /\ (e.state = "flying" => Waiting(e)' # {})
  BY <1>1, StillWaiting DEF Orderly
<1>4. CASE EntryOf(r, shared) # {}
  BY <1>3, <1>4 DEF Opened, Orderly, Shares
<1>5. CASE EntryOf(r, shared) = {}
  <2>1. x.pc = pc /\ x.iso = r.iso /\ x.refresh = r.refresh
    BY <1>5, PcView DEF Joined, Same
  <2>2. shared' = shared \cup {new}
    BY <1>5 DEF Opened
  <2>3. new.iso = r.iso /\ new.token = r.refresh /\ new.state = "flying"
    OBVIOUS
  <2> HIDE DEF x, new
  <2>4. q \in Waiting(new)'
    BY <1>2, <2>1, <2>3 DEF Waiting
  <2>5. Told(srv', new)
    BY <2>3 DEF Told
  <2>6. \A e \in shared : ~(e.iso = new.iso /\ e.token = new.token)
    BY <1>5, <2>3 DEF EntryOf
  <2> QED
    BY <1>3, <2>2, <2>4, <2>5, <2>6 DEF Orderly, Shares
<1> QED
  BY <1>4, <1>5

\* With the sessions and the cookies as they were, the rest of the order.
LEMMA QuietOrder ==
    ASSUME SessionInv, Orderly, NEW q \in Slots, NEW x, req' = [req EXCEPT ![q] = x], srv' = srv,
           Held(srv, x), Shares',
           \A t \in Tokens(jar') : Recent(srv, t) /\ (Behind(srv, t) => t \in Tokens(jar)),
           \A t \in Tokens(jar') : Behind(srv, t) /\ Brings(srv, req[q]) => Brings(srv, x)
    PROVE  Orderly'
<1>1. Typed /\ req = [p \in Slots |-> req[p]]
  BY DEF SessionInv, Typed
<1>2. \A p \in Slots : req'[p] = IF p = q THEN x ELSE req[p]
  BY <1>1
<1>3. Unharmed' /\ Holding'
  BY <1>1, <1>2 DEF Orderly, Unharmed, Holding
<1>4. Chased'
  BY <1>1, <1>2 DEF Orderly, Chased
<1> QED
  BY <1>3, <1>4 DEF Orderly

LEMMA SameStore == ASSUME SessionInv PROVE Later(srv, srv) /\ Steady(srv, srv)
BY Unchanging DEF SessionInv, Typed, Steady

\* What the order says of one request, and of the shared refreshes.
LEMMA Facts ==
    ASSUME SessionInv, Orderly, NEW q \in Slots
    PROVE  /\ Request(srv, req[q]) /\ Held(srv, req[q]) /\ Recents(srv, req[q])
           /\ \A e \in shared : Entry(srv, e) /\ Told(srv, e) /\ Token(srv, e.token)
           /\ \A t \in Tokens(jar) : Token(srv, t) /\ Recent(srv, t)
           /\ Browser(srv, jar) /\ StoreOK
BY CookieTokens DEF SessionInv, Typed, Orderly, Holding, Shares, Chased, Entry, Held, Recents, Browser

LEMMA SendOrder ==
    ASSUME SessionInv, Orderly, NEW q \in Slots, NEW kind \in Kinds, NEW iso, Send(q, kind, iso)
    PROVE  Orderly'
<1> DEFINE r == readSession(kind, iso, jar)
<1>0. kind \in {"api", "me", "exchange", "logout", "impersonate", "stop"}
  BY WebSessionAssumption
<1>1. Begun(srv, r) /\ Held(srv, Begin(r, shared))
  BY <1>0, Facts, ReadBegun, BeginHeld
<1>2. req[q] = Idle /\ req' = [req EXCEPT ![q] = Begin(r, shared)] /\ UNCHANGED <<jar, srv>>
  BY DEF Send
<1>3. req[q].pc \notin {"refresh", "again"} /\ ~Brings(srv, req[q])
  BY <1>2 DEF Idle, Brings, NoCookies
<1>4. Shares'
  <2>1. shared' = IF Handled(r) /\ Needs(r) THEN Opened(r, shared) ELSE shared
    BY DEF Send
  <2> HIDE DEF r
  <2>2. CASE Handled(r) /\ Needs(r)
    <3>1. Begin(r, shared) = Joined(r, "refresh", shared)
      BY <2>2 DEF Begin, Handled, Ensured, Needs
    <3>2. Request(srv, r) /\ Recent(srv, r.refresh) /\ r.refresh # None
      BY <1>1, <2>2 DEF Begun, Recents, Needs
    <3> QED
      BY <1>2, <1>3, <2>1, <2>2, <3>1, <3>2, OpenedShares
  <2>3. CASE ~(Handled(r) /\ Needs(r))
    <3>1. Typed /\ req = [p \in Slots |-> req[p]]
      BY DEF SessionInv, Typed
    <3>2. \A e \in shared : Told(srv', e) /\ (e.state = "flying" => Waiting(e)' # {})
      BY <1>2, <1>3, <3>1, SameStore, StillWaiting DEF Orderly
    <3> QED
      BY <2>1, <2>3, <3>2 DEF Orderly, Shares
  <2> QED
    BY <2>2, <2>3
<1> HIDE DEF r
<1> QED
  BY <1>1, <1>2, <1>3, <1>4, Facts, QuietOrder

\* A step of one request, the store and the shared refreshes as they were.
LEMMA Alone ==
    ASSUME SessionInv, Orderly, NEW q \in Slots, NEW x, req' = [req EXCEPT ![q] = x],
           req[q].pc \notin {"refresh", "again"}, UNCHANGED <<jar, shared, srv>>,
           Held(srv, x), Brings(srv, req[q]) => Brings(srv, x)
    PROVE  Orderly'
BY SameStore, GoesOnAlone DEF Orderly, Unharmed

LEMMA SentOrder == ASSUME SessionInv, Orderly, NEW q \in Slots, Sent(q) PROVE Orderly'
<1> DEFINE r == req[q]
           force == ~Accepted(r.access) /\ r.refresh # None
<1>1. /\ Request(srv, r) /\ Held(srv, r) /\ Recents(srv, r) /\ StoreOK
      /\ \A e \in shared : Entry(srv, e) /\ Told(srv, e) /\ Token(srv, e.token)
  BY Facts
<1>2. r.pc = "send" /\ Handled(r) /\ UNCHANGED <<jar, srv>>
  BY <1>1 DEF Sent, Held, Handling
<1>3. CASE Accepted(r.access)
  <2>1. req' = [req EXCEPT ![q] = Answer(r, "ok")] /\ shared' = shared
    BY <1>3 DEF Sent
  <2> QED
    BY <1>1, <1>2, <2>1, HeldAnswer, Alone
<1>4. CASE ~Accepted(r.access) /\ r.refresh = None
  <2>1. req' = [req EXCEPT ![q] = Refused(r)] /\ shared' = shared
    BY <1>4 DEF Sent
  <2> QED
    BY <1>1, <1>2, <2>1, HeldRefused, Alone
<1>5. CASE force
  <2> DEFINE x == Joined(r, "again", shared)
  <2>1. req' = [req EXCEPT ![q] = x] /\ shared' = Opened(r, shared)
    BY <1>5 DEF Sent
  <2>2. Held(srv, [r EXCEPT !.pc = "again"])
    BY <1>1, <1>2, PcView DEF Same, Alike, Held, Handled, Handling
  <2>3. "refresh" \in DOMAIN r.sets => r.sets.refresh = r.refresh
    BY <1>1, <1>2 DEF Held, Handling
  <2>4. Held(srv, x) /\ (Brings(srv, r) => Brings(srv, x))
    BY <1>1, <1>5, <2>2, <2>3, JoinHeld DEF Brings
  <2>5. Shares'
    BY <1>1, <1>2, <1>5, <2>1, OpenedShares DEF Recents
  <2> HIDE DEF x
  <2> QED
    BY <1>2, <2>1, <2>4, <2>5, Facts, QuietOrder
<1> QED
  BY <1>3, <1>4, <1>5

LEMMA ResentOrder == ASSUME SessionInv, Orderly, NEW q \in Slots, Resent(q) PROVE Orderly'
<1> DEFINE r == req[q]
           x == IF Accepted(r.access) THEN Answer(r, "ok")
                ELSE IF r.kind = "api" THEN Answer(endSession(r), "401") ELSE Refused(r)
<1>1. Request(srv, r) /\ Held(srv, r) /\ Recents(srv, r)
  BY Facts
<1>2. r.pc = "resend" /\ Handled(r) /\ req' = [req EXCEPT ![q] = x] /\ UNCHANGED <<jar, shared, srv>>
  BY <1>1 DEF Resent, Held, Handling
<1>3. /\ Held(srv, Answer(r, "ok")) /\ Held(srv, Refused(r)) /\ Held(srv, Answer(endSession(r), "401"))
      /\ Brings(srv, r) => /\ Brings(srv, Answer(r, "ok")) /\ Brings(srv, Refused(r))
                           /\ Brings(srv, Answer(endSession(r), "401"))
  BY <1>1, <1>2, HeldAnswer, HeldRefused, EndRecents, EndBrings
<1>4. Held(srv, x) /\ (Brings(srv, r) => Brings(srv, x))
  BY <1>3
<1> HIDE DEF x
<1> QED
  BY <1>2, <1>4, Alone

LEMMA ImpersonatedOrder == ASSUME SessionInv, Orderly, NEW q \in Slots, Impersonated(q) PROVE Orderly'
<1> DEFINE r == req[q]
           c == Plus(r.sets, [access |-> Minted(r.access.s, FALSE), refresh |-> None, original |-> r.refresh])
           y == [r EXCEPT !.sets = c]
<1>1. Request(srv, r) /\ Held(srv, r) /\ Recents(srv, r)
  BY Facts
<1>2. r.pc = "impersonate" /\ Handled(r) /\ UNCHANGED <<jar, shared, srv>>
  BY <1>1 DEF Impersonated, Held, Handling
<1>3. CASE ~Accepted(r.access)
  <2>1. req' = [req EXCEPT ![q] = Answer(r, "401")]
    BY <1>3 DEF Impersonated
  <2> QED
    BY <1>1, <1>2, <2>1, HeldAnswer, Alone
<1>4. CASE Accepted(r.access)
  <2>1. req' = [req EXCEPT ![q] = Answer(y, "ok")]
    BY <1>4 DEF Impersonated
  <2>2. /\ {"refresh", "original"} \subseteq DOMAIN c /\ c.refresh = None /\ c.original = r.refresh
        /\ DOMAIN c = DOMAIN r.sets \cup {"access", "refresh", "original"}
    BY DEF Plus
  <2>3. Tokens(c) = {None, r.refresh}
    <3> HIDE DEF c
    <3> QED
      BY <2>2, TokensView
  <2>4. Request(srv, y)
    <3>1. r.access \in Access
      BY <1>1, <1>4 DEF Accepted, Usable, Request
    <3>2. Minted(r.access.s, FALSE) \in Access
      BY <3>1, Minting DEF Access, SessionInv, Typed
    <3>3. Token(srv, None) /\ Token(srv, r.refresh) /\ Cookies(srv, r.sets)
      BY <1>1 DEF Token, Request
    <3> DEFINE a == Minted(r.access.s, FALSE)
    <3>4. a \in Access
      BY <3>2
    <3> HIDE DEF a
    <3>5. Cookies(srv, [access |-> a, refresh |-> None, original |-> r.refresh])
      BY <3>3, <3>4, PlainCookies
    <3>6. Cookies(srv, c)
      BY <3>3, <3>5, PlusCookies DEF a
    <3> QED
      BY <1>1, <3>6, Changed
  <2> HIDE DEF c
  <2>5. Alike(y, r) /\ y.sets = c /\ y.refresh = r.refresh
    BY <1>1, SetsView
  <2> HIDE DEF y
  <2>6. Recents(srv, y)
    BY <1>1, <2>3, <2>5 DEF Alike, Recents, Recent
  <2>7. Brings(srv, r) => Brings(srv, y)
    <3>1. Brings(srv, r) => Newest(srv, r.refresh)
      BY <1>1, <1>2 DEF Brings, Held, Handling, Tokens
    <3> QED
      BY <1>2, <2>2, <2>3, <2>5, <3>1 DEF Alike, Brings, Handled, Newest
  <2> QED
    BY <1>2, <2>1, <2>4, <2>6, <2>7, HeldAnswer, Alone
<1> QED
  BY <1>3, <1>4

\* A browser that misses an answer, and misses no rotation with it.
LEMMA MissedOrder ==
    ASSUME SessionInv, Orderly, NEW q \in Slots, ImpersonateLost(q) \/ Abandon(q)
    PROVE  OrderInv'
<1> DEFINE r == req[q]
           x == [Answer(r, "502") EXCEPT !.sets = NoCookies]
<1>1. Request(srv, r) /\ Recents(srv, r)
  BY Facts
<1>2. Typed
  BY DEF SessionInv
<1>3. CASE r.refresh # r.came
  <2>1. seen' = [seen EXCEPT !.lost = seen.lost \/ r.refresh # r.came]
    BY DEF ImpersonateLost, Abandon
  <2>2. seen'.lost
    BY <1>2, <1>3, <2>1 DEF Typed
  <2> QED
    BY <2>2 DEF OrderInv
<1>4. CASE r.refresh = r.came
  <2>1. ~Brings(srv, r) /\ r.pc \notin {"refresh", "again"} /\ UNCHANGED <<jar, shared, srv>>
    BY <1>4 DEF Brings, ImpersonateLost, Abandon
  <2>2. Held(srv, x)
    BY <1>1, AnswerRecents
  <2>3. Held(srv, Idle)
    <3>1. Tokens(NoCookies) = {}
      BY TokensView
    <3> QED
      BY <3>1 DEF Held, Idle, Handling, Handled, Token, Recent
  <2>4. req' = [req EXCEPT ![q] = x] \/ req' = [req EXCEPT ![q] = Idle]
    BY DEF ImpersonateLost, Abandon
  <2> HIDE DEF x
  <2>5. Orderly'
    BY <2>1, <2>2, <2>3, <2>4, Alone
  <2> QED
    BY <2>5 DEF OrderInv
<1> QED
  BY <1>3, <1>4


LEMMA HeldIdle == \A v : Held(v, Idle) /\ ~Brings(v, Idle)
<1>1. Tokens(NoCookies) = {}
  BY TokensView
<1> QED
  BY <1>1 DEF Held, Idle, Handling, Handled, Token, Recent, Brings

LEMMA TradedOrder ==
    ASSUME SessionInv, Orderly, NEW q \in Slots, NEW s \in Sessions, Traded(q, s)
    PROVE  Orderly'
<1> DEFINE r == req[q]
           new == Plus(clearedSessionCookies, sessionCookies(Minted(s, TRUE), <<s, 0>>))
           y == [r EXCEPT !.sets = new]
           d == [r EXCEPT !.pc = "drop"]
           x == IF r.refresh # None THEN [r EXCEPT !.pc = "drop", !.sets = new] ELSE Answer(y, "ok")
<1>1. Request(srv, r) /\ Held(srv, r) /\ StoreOK
  BY Facts
<1>2. /\ r.pc = "trade" /\ srv[s].state = "none" /\ req' = [req EXCEPT ![q] = x]
      /\ UNCHANGED <<jar, shared>> /\ srv' = [srv EXCEPT ![s].state = "live"]
  BY DEF Traded
<1>3. ~Handled(r) /\ ~Brings(srv, r)
  BY <1>1, <1>2 DEF Held, Brings
<1>4. \A p \in Sessions : /\ srv'[p].gen = srv[p].gen /\ srv'[p].fresh = srv[p].fresh
                            /\ srv'[p].state = IF p = s THEN "live" ELSE srv[p].state
  <2> DEFINE live == [state |-> "live", gen |-> srv[s].gen, fresh |-> srv[s].fresh]
  <2>1. [srv[s] EXCEPT !.state = "live"] = live
    BY <1>1, Stored, Sessioned
  <2>2. srv' = [srv EXCEPT ![s] = live]
    BY <1>2, <2>1
  <2>3. live.state = "live" /\ live.gen = srv[s].gen /\ live.fresh = srv[s].fresh
    OBVIOUS
  <2> HIDE DEF live
  <2>4. \A p \in Sessions : srv'[p] = IF p = s THEN live ELSE srv[p]
    BY <1>1, <2>2 DEF StoreOK, Store
  <2> QED
    BY <2>3, <2>4
<1>5. Later(srv, srv') /\ Token(srv', <<s, 0>>)
  BY <1>1, <1>2, Opening
<1>6. Steady(srv, srv') /\ Unharmed'
  BY <1>2, <1>4 DEF Steady, Orderly, Unharmed
<1>7. Request(srv', r) /\ Held(srv', r)
  BY <1>1, <1>5, <1>6, SteadyRecent, Carried
<1>8. Recent(srv', <<s, 0>>) /\ Recent(srv', None)
  <2>1. srv[s].gen = 0 /\ srv[s].fresh <= srv[s].gen /\ srv[s].fresh \in Nat
    BY <1>1, <1>2, Stored, Sessioned DEF Orderly, Unharmed
  <2> QED
    BY <1>4, <2>1 DEF Recent
<1>9. Cookies(srv', new) /\ Tokens(new) \subseteq {<<s, 0>>, None}
  <2> DEFINE a == Minted(s, TRUE)
  <2>1. a \in Access \cup {None}
    BY Minting DEF SessionInv, Typed
  <2> HIDE DEF a
  <2> DEFINE c == Plus(clearedSessionCookies, sessionCookies(a, <<s, 0>>))
  <2>2. Cookies(srv', c)
    BY <1>5, <2>1, PlainCookies, PlusCookies
  <2>3. Tokens(c) \subseteq {<<s, 0>>, None}
    BY TokensView DEF clearedSessionCookies, Names
  <2> QED
    BY <2>2, <2>3 DEF a
<1> HIDE DEF new
<1>10. Request(srv', y) /\ Alike(y, r) /\ y.sets = new /\ y.refresh = r.refresh
  BY <1>7, <1>9, Changed, SetsView
<1>11. Recents(srv', y)
  BY <1>7, <1>8, <1>9, <1>10 DEF Alike, Recents, Held
<1>12. Held(srv', Answer(y, "ok"))
  BY <1>10, <1>11, HeldAnswer
<1>13. Held(srv', [r EXCEPT !.pc = "drop", !.sets = new])
  <2>1. Request(srv', d) /\ Same(d, r) /\ d.pc = "drop"
    BY <1>7, Changed, PcView DEF Phases
  <2> DEFINE z == [d EXCEPT !.sets = new]
  <2>2. [r EXCEPT !.pc = "drop", !.sets = new] = z
    OBVIOUS
  <2> HIDE DEF d
  <2>3. Alike(z, d) /\ z.sets = new /\ z.refresh = d.refresh /\ z.pc = d.pc
    BY <2>1, SetsView
  <2> HIDE DEF z
  <2>4. Held(srv', z)
    BY <1>3, <1>7, <1>8, <1>9, <2>1, <2>3 DEF Same, Alike, Held, Handled, Handling
  <2> QED
    BY <2>2, <2>4
<1>14. Held(srv', x)
  BY <1>12, <1>13
<1> HIDE DEF x
<1> QED
  BY <1>2, <1>3, <1>4, <1>5, <1>6, <1>14, GoesOnAlone

\* Sessions are signed out, or the call is lost: no token falls behind.
LEMMA RevokingOrder ==
    ASSUME SessionInv, Orderly, NEW q \in Slots, NEW x, Request(srv, x), Held(srv, x),
           req' = [req EXCEPT ![q] = x], req[q].pc \notin {"refresh", "again"}, UNCHANGED <<jar, shared>>,
           ~Brings(srv, req[q]), NEW ss \in SUBSET Sessions, \A s \in ss : Live(s), NEW said,
           Revocation(q, ss, said)
    PROVE  Orderly'
<1>1. StoreOK
  BY Facts
<1>2. \A p \in Sessions : /\ SignedOut(ss)[p].gen = srv[p].gen /\ SignedOut(ss)[p].fresh = srv[p].fresh
                            /\ SignedOut(ss)[p].state = IF p \in ss THEN "signed_out" ELSE srv[p].state
  <2> DEFINE out(p) == [state |-> "signed_out", gen |-> srv[p].gen, fresh |-> srv[p].fresh]
  <2>1. \A p \in Sessions : [srv[p] EXCEPT !.state = "signed_out"] = out(p)
    BY <1>1, Stored, Sessioned
  <2>2. \A p \in Sessions : SignedOut(ss)[p] = IF p \in ss THEN out(p) ELSE srv[p]
    BY <2>1 DEF SignedOut
  <2>3. \A p \in Sessions : out(p).state = "signed_out" /\ out(p).gen = srv[p].gen /\ out(p).fresh = srv[p].fresh
    OBVIOUS
  <2> HIDE DEF out
  <2> QED
    BY <2>2, <2>3
<1>3. Later(srv, SignedOut(ss)) /\ Later(srv, srv)
  BY <1>1, SigningOut, Unchanging
<1>4. srv' = srv \/ srv' = SignedOut(ss)
  BY DEF Revocation
<1>5. Later(srv, srv') /\ \A s \in Sessions : srv'[s].gen = srv[s].gen
  BY <1>2, <1>3, <1>4
<1>6. Steady(srv, srv') /\ Unharmed'
  <2>1. \A s \in Sessions : s \in ss => srv[s].state = "live"
    BY DEF Live
  <2> QED
    BY <1>2, <1>4, <2>1 DEF Steady, Orderly, Unharmed
<1>7. Held(srv', x)
  BY <1>5, <1>6, SteadyRecent
<1> QED
  BY <1>5, <1>6, <1>7, GoesOnAlone

LEMMA DroppedOrder == ASSUME SessionInv, Orderly, NEW q \in Slots, Dropped(q) PROVE Orderly'
<1> DEFINE ss == EndedBy(req[q].refresh, None)
           said == {}
           x == Answer(req[q], "ok")
<1>1. Request(srv, req[q]) /\ Held(srv, req[q]) /\ Recents(srv, req[q])
  BY Facts
<1>2. Request(srv, x) /\ Held(srv, x)
  BY <1>1, Answers, HeldAnswer
<1>3. ss \in SUBSET Sessions /\ \A s \in ss : Live(s)
  BY DEF EndedBy
<1>4. /\ Revocation(q, ss, said) /\ req' = [req EXCEPT ![q] = x] /\ UNCHANGED <<jar, shared>>
      /\ req[q].pc = "drop"
  BY DEF Dropped
<1>5. ~Brings(srv, req[q])
  BY <1>1, <1>4 DEF Held, Brings
<1> HIDE DEF ss, said, x
<1> QED
  BY <1>2, <1>3, <1>4, <1>5, RevokingOrder

LEMMA RevokedOrder == ASSUME SessionInv, Orderly, NEW q \in Slots, Revoked(q) PROVE Orderly'
<1> DEFINE r == req[q]
           ss == EndedBy(r.refresh, r.access) \cup EndedBy(r.original, None)
           said == {t[1] : t \in {r.refresh, r.original} \ {None}}
           y == [r EXCEPT !.sets = clearedSessionCookies]
           x == Answer(y, "ok")
<1>1. Request(srv, r) /\ Held(srv, r) /\ Recents(srv, r)
  BY Facts
<1>2. Request(srv, y) /\ Alike(y, r) /\ y.sets = clearedSessionCookies /\ y.refresh = r.refresh
  BY <1>1, PlainCookies, Changed, SetsView
<1>3. Tokens(clearedSessionCookies) \subseteq {None}
  BY DEF Tokens, clearedSessionCookies
<1> HIDE DEF y
<1>4. Recents(srv, y)
  BY <1>1, <1>2, <1>3 DEF Alike, Recents, Recent
<1>5. Request(srv, x) /\ Held(srv, x)
  BY <1>2, <1>4, Answers, HeldAnswer
<1>6. ss \in SUBSET Sessions /\ \A s \in ss : Live(s)
  BY DEF EndedBy
<1>7. /\ Revocation(q, ss, said) /\ req' = [req EXCEPT ![q] = x] /\ UNCHANGED <<jar, shared>>
      /\ r.pc = "revoke"
  BY DEF Revoked, y
<1>8. ~Brings(srv, r)
  BY <1>1, <1>7 DEF Held, Brings
<1> HIDE DEF ss, said, x
<1> QED
  BY <1>5, <1>6, <1>7, <1>8, RevokingOrder

\* Next_ and the cookies after an answer that landed in order.
LEMMA LandOrder ==
    ASSUME SessionInv, Orderly, NEW q \in Slots, NEW iso, Land(q, iso)
    PROVE  OrderInv'
<1> DEFINE r == req[q]
           c == withCookies(r.sets)
           then == readSession("login", iso, c)
           x == Next_(r, iso, c, shared)
<1>1. /\ Request(srv, r) /\ Held(srv, r) /\ StoreOK /\ Browser(srv, jar)
      /\ \A e \in shared : Entry(srv, e) /\ Told(srv, e)
      /\ \A t \in Tokens(jar) : Token(srv, t) /\ Recent(srv, t)
  BY Facts
<1>2. Typed /\ req = [p \in Slots |-> req[p]]
  BY DEF SessionInv, Typed
<1>3. /\ r.pc = "answer" /\ jar' = c /\ srv' = srv /\ req' = [req EXCEPT ![q] = x]
      /\ seen' = [seen EXCEPT !.crossed = seen.crossed \/ Crossing(r)]
      /\ shared' = IF r.kind = "exchange" /\ Needs(then) THEN Opened(then, shared) ELSE shared
  BY DEF Land
<1>4. CASE Crossing(r)
  <2>1. seen'.crossed
    BY <1>2, <1>3, <1>4 DEF Typed
  <2> QED
    BY <2>1 DEF OrderInv
<1>5. CASE ~Crossing(r)
  <2>0. /\ {"refresh", "original"} \subseteq DOMAIN c
        /\ \A n \in {"refresh", "original"} : c[n] = IF n \in DOMAIN r.sets THEN r.sets[n] ELSE jar[n]
    BY DEF withCookies, Names
  <2>1. \A n \in {"refresh", "original"} : n \in DOMAIN r.sets => Newest(srv, r.sets[n])
    BY <1>5 DEF Crossing, Carries, Current, Newest
  <2>2. \A n \in {"refresh", "original"} : jar[n] \in Tokens(jar)
    BY <1>1 DEF Tokens, Browser, Names
  <2>3. \A n \in {"refresh", "original"} : n \in DOMAIN r.sets => r.sets[n] \in Tokens(r.sets)
    BY DEF Tokens
  <2>4. Browser(srv, c)
    <3>1. DOMAIN c = Names /\ c = [n \in DOMAIN c |-> c[n]]
          /\ c.access = IF "access" \in DOMAIN r.sets THEN r.sets.access ELSE jar.access
      BY DEF withCookies, Names
    <3>2. /\ "access" \in DOMAIN r.sets => r.sets.access \in Access \cup {None}
          /\ "refresh" \in DOMAIN r.sets => Token(srv, r.sets.refresh)
          /\ "original" \in DOMAIN r.sets => Token(srv, r.sets.original)
      BY <1>1 DEF Request, Cookies
    <3>3. jar.access \in Access \cup {None} /\ Token(srv, jar.refresh) /\ Token(srv, jar.original)
      BY <1>1 DEF Browser, Cookies, Names
    <3> HIDE DEF c
    <3> QED
      BY <2>0, <3>1, <3>2, <3>3 DEF Browser, Cookies
  <2> HIDE DEF c
  <2>5. \A t \in Tokens(c) : \E n \in {"refresh", "original"} : t = c[n]
    BY DEF Tokens
  <2>6. \A t \in Tokens(c) : Recent(srv, t)
    BY <1>1, <2>0, <2>2, <2>3, <2>5 DEF Held
  <2>7. ASSUME NEW t \in Tokens(c), Behind(srv, t)
        PROVE  \E n \in {"refresh", "original"} : t = jar[n] /\ n \notin DOMAIN r.sets /\ t # None
    BY <2>0, <2>1, <2>5, <2>7 DEF Behind
  <2>8. \A t \in Tokens(c) : Behind(srv, t) => t \in Tokens(jar) /\ ~Brings(srv, r)
    <3> SUFFICES ASSUME NEW t \in Tokens(c), Behind(srv, t) PROVE t \in Tokens(jar) /\ ~Brings(srv, r)
      OBVIOUS
    <3>1. PICK n \in {"refresh", "original"} : t = jar[n] /\ n \notin DOMAIN r.sets /\ t # None
      BY <2>7
    <3>2. ASSUME Brings(srv, r) PROVE FALSE
      <4>1. "refresh" \in DOMAIN r.sets /\ Handled(r) /\ (r.sets.refresh = None => "original" \in DOMAIN r.sets)
        BY <3>2 DEF Brings
      <4>2. Carries(r, "refresh") /\ jar.original # None
        BY <3>1, <4>1 DEF Carries
      <4> QED
        BY <1>5, <4>1, <4>2 DEF Crossing
    <3> QED
      BY <2>2, <3>1, <3>2
  <2>9. Held(srv, x)
    BY <1>1, <2>4, <2>6, NextHeld
  <2>10. Shares'
    <3>1. CASE r.kind = "exchange" /\ Needs(then)
      <4>1. then.kind = "login"
        BY ReadView
      <4>2. Begun(srv, then)
        BY <2>4, <2>6, ReadBegun
      <4> HIDE DEF then
      <4>3. Begin(then, shared) = Joined(then, "refresh", shared)
        BY <3>1, <4>1 DEF Begin, Ensured, Needs
      <4>4. x = Begin(then, shared)
        BY <3>1 DEF Next_, then
      <4>5. Request(srv, then) /\ Recent(srv, then.refresh) /\ then.refresh # None
        BY <3>1, <4>2 DEF Begun, Recents, Needs
      <4> HIDE DEF x
      <4> QED
        BY <1>3, <3>1, <4>3, <4>4, <4>5, OpenedShares
    <3>2. CASE ~(r.kind = "exchange" /\ Needs(then))
      <4>1. shared' = shared
        BY <1>3, <3>2
      <4> HIDE DEF x
      <4>2. \A e \in shared : Told(srv', e) /\ (e.state = "flying" => Waiting(e)' # {})
        BY <1>2, <1>3, SameStore, StillWaiting DEF Orderly
      <4> QED
        BY <4>1, <4>2 DEF Orderly, Shares
    <3> QED
      BY <3>1, <3>2
  <2> HIDE DEF x
  <2>11. Orderly'
    BY <1>3, <2>6, <2>8, <2>9, <2>10, QuietOrder
  <2> QED
    BY <2>11 DEF OrderInv
<1> QED
  BY <1>4, <1>5

\* What a refresh leaves of every session.
LEMMA RefreshedView ==
    ASSUME StoreOK, NEW t, Token(srv, t), t # None
    PROVE  \A p \in Sessions :
               /\ Refreshed(t)[p].fresh = srv[p].fresh
               /\ Refreshed(t)[p].gen = IF p = t[1] /\ Rotates(t) THEN srv[p].gen + 1 ELSE srv[p].gen
               /\ Refreshed(t)[p].state = IF p = t[1] /\ Reused(t) THEN "reuse" ELSE srv[p].state
<1> DEFINE s == t[1]
           new == [state |-> IF Reused(t) THEN "reuse" ELSE srv[s].state,
                   gen |-> IF Rotates(t) THEN srv[s].gen + 1 ELSE srv[s].gen, fresh |-> srv[s].fresh]
<1>1. s \in Sessions
  BY DEF Token, Refresh
<1>2. \A y, z : [srv[s] EXCEPT !.gen = y, !.state = z] = [state |-> z, gen |-> y, fresh |-> srv[s].fresh]
  BY <1>1, Stored, Sessioned
<1>3. Refreshed(t) = [srv EXCEPT ![s] = [srv[s] EXCEPT
                         !.gen = IF Rotates(t) THEN srv[s].gen + 1 ELSE srv[s].gen,
                         !.state = IF Reused(t) THEN "reuse" ELSE srv[s].state]]
  BY DEF Refreshed
<1>4. Refreshed(t) = [srv EXCEPT ![s] = new]
  BY <1>2, <1>3
<1>5. /\ new.fresh = srv[s].fresh /\ new.gen = (IF Rotates(t) THEN srv[s].gen + 1 ELSE srv[s].gen)
      /\ new.state = (IF Reused(t) THEN "reuse" ELSE srv[s].state)
  OBVIOUS
<1> HIDE DEF new
<1>6. \A p \in Sessions : Refreshed(t)[p] = IF p = s THEN new ELSE srv[p]
  BY <1>4 DEF StoreOK, Store
<1> QED
  BY <1>5, <1>6

\* The token of a refresh in flight is recent: it is rotated or replayed, or
\* its session is over, and no session is ended for its sake.
LEMMA Answered ==
    ASSUME SessionInv, Orderly, Walkable, NEW e \in shared, e.state = "flying",
           srv' = Refreshed(e.token)
    PROVE  LET t == NextToken(e.token)
           IN  /\ Later(srv, srv') /\ Steady(srv, srv') /\ Unharmed'
               /\ \A s \in Sessions : srv'[s].state = srv[s].state
               /\ ~Rotates(e.token) => \A s \in Sessions : srv'[s].gen = srv[s].gen
               /\ Rotates(e.token) \/ Replays(e.token) =>
                      /\ t # None /\ t[1] = e.token[1] /\ e.token[2] < t[2]
                      /\ Token(srv', t) /\ Recent(srv', t) /\ Newest(srv', t)
               /\ Rotates(e.token) => \A u : Token(srv, u) => u # t
<1> DEFINE u == e.token
           s == u[1]
           t == NextToken(u)
<1>1. StoreOK /\ Token(srv, u) /\ u # None /\ Told(srv, e)
  BY DEF SessionInv, Typed, Entry, Orderly, Shares
<1>2. /\ s \in Sessions /\ u[2] \in Nat /\ u[2] <= srv[s].gen /\ srv[s].state # "none"
      /\ srv[s].gen \in Nat /\ srv[s].fresh \in Nat /\ srv[s].fresh <= srv[s].gen
  BY <1>1, Stored, Sessioned DEF Token, Refresh
<1>3. Later(srv, srv') /\ Token(srv', t)
  BY <1>1, RefreshGoesOn
<1>4. srv[s].state = "live" => srv[s].fresh <= u[2]
  BY <1>1 DEF Told, Recent
<1>5. srv[s].gen - srv[s].fresh <= MaxWalk /\ MaxWalk \in Nat
  BY <1>2, WebSessionAssumption DEF Walkable
<1>6. ~Reused(u)
  BY <1>2, <1>4, <1>5 DEF Reused, Live, InGrace
<1>7. \A p \in Sessions : /\ srv'[p].fresh = srv[p].fresh /\ srv'[p].state = srv[p].state
                            /\ srv'[p].gen = IF p = s /\ Rotates(u) THEN srv[p].gen + 1 ELSE srv[p].gen
  BY <1>1, <1>6, RefreshedView
<1>8. Steady(srv, srv')
  BY <1>7 DEF Steady
<1>9. Unharmed'
  <2>1. Rotates(u) => srv[s].state = "live"
    BY DEF Rotates, Live
  <2> QED
    BY <1>7, <2>1 DEF Orderly, Unharmed
<1>10. /\ t = <<s, IF Rotates(u) THEN u[2] + 1 ELSE srv[s].gen>>
       /\ t[1] = s /\ t[2] = IF Rotates(u) THEN u[2] + 1 ELSE srv[s].gen
  BY DEF NextToken
<1>11. Rotates(u) => u[2] = srv[s].gen
  BY DEF Rotates, Current
<1>12. Replays(u) => u[2] < srv[s].gen
  BY DEF Replays
<1>13. t[2] = srv'[s].gen /\ srv'[s].fresh = srv[s].fresh /\ t[2] \in Nat /\ srv[s].gen <= t[2]
  BY <1>2, <1>7, <1>10, <1>11
<1>14. Recent(srv', t) /\ Newest(srv', t)
  BY <1>2, <1>10, <1>13 DEF Recent, Newest
<1>15. Rotates(u) \/ Replays(u) => u[2] < t[2]
  BY <1>2, <1>10, <1>11, <1>12
<1>16. t # None
  BY <1>2, <1>10, <1>13, WebSessionAssumption
<1>17. ASSUME Rotates(u), NEW z, Token(srv, z) PROVE z # t
  <2>1. z[1] = s /\ z # None => z[2] <= srv[s].gen
    BY <1>17 DEF Token
  <2>2. t[2] = srv[s].gen + 1
    BY <1>10, <1>11, <1>17
  <2> QED
    BY <1>2, <1>10, <1>16, <2>1, <2>2
<1> HIDE DEF t
<1> QED
  BY <1>3, <1>7, <1>8, <1>9, <1>10, <1>14, <1>15, <1>17, <1>16 DEF t

\* The answer of a refresh reaches everyone who waited for it.
LEMMA RefreshServedOrder ==
    ASSUME SessionInv, Orderly, Walkable, NEW e \in shared, RefreshServed(e)
    PROVE  Orderly'
<1> DEFINE ok == Rotates(e.token) \/ Replays(e.token)
           a == Minted(e.token[1], TRUE)
           t == NextToken(e.token)
           y == IF ok THEN [e EXCEPT !.state = "ok", !.access = a, !.next = t] ELSE [e EXCEPT !.state = "ended"]
           w == Waiting(e)
<1>1. /\ e.state = "flying" /\ srv' = Refreshed(e.token) /\ jar' = jar
      /\ shared' = (shared \ {e}) \cup {y}
      /\ req' = [q \in Slots |-> IF q \notin w THEN req[q] ELSE IF ok THEN Got(req[q], a, t) ELSE GotEnded(req[q])]
  BY DEF RefreshServed
<1>2. /\ Later(srv, srv') /\ Steady(srv, srv') /\ Unharmed'
      /\ \A s \in Sessions : srv'[s].state = srv[s].state
      /\ ~Rotates(e.token) => \A s \in Sessions : srv'[s].gen = srv[s].gen
      /\ ok => /\ t # None /\ t[1] = e.token[1] /\ e.token[2] < t[2]
               /\ Token(srv', t) /\ Recent(srv', t) /\ Newest(srv', t)
      /\ Rotates(e.token) => \A u : Token(srv, u) => u # t
  BY <1>1, Answered
<1>3. /\ Typed /\ Entry(srv, e) /\ e.token # None
      /\ \A q \in Slots : Request(srv, req[q]) /\ Held(srv, req[q])
      /\ \A f \in shared : Entry(srv, f) /\ Told(srv, f) /\ (f.state = "flying" => Waiting(f) # {})
      /\ \A f, g \in shared : f.iso = g.iso /\ f.token = g.token => f = g
      /\ \A u \in Tokens(jar) : /\ Token(srv, u) /\ Recent(srv, u)
                                /\ Behind(srv, u) => \E p \in Slots : Brings(srv, req[p])
  BY CookieTokens DEF SessionInv, Typed, Entry, Orderly, Holding, Shares, Chased, Browser
<1>4. a \in Access \cup {None}
  <2>1. e.token[1] \in Sessions
    BY <1>3 DEF Entry, Token, Refresh
  <2> QED
    BY <1>3, <2>1, Minting DEF Typed
<1>5. \A q \in w : q \in Slots /\ req[q].pc \in {"refresh", "again"} /\ req[q].iso = e.iso /\ req[q].refresh = e.token
  BY DEF Waiting
<1>6. /\ \A q \in Slots : Request(srv', req[q]) /\ Held(srv', req[q])
      /\ \A f \in shared : Told(srv', f)
  BY <1>2, <1>3, SteadyRecent, Carried
<1>7. y.iso = e.iso /\ y.token = e.token /\ y.state # "flying" /\ Told(srv', y)
  <2>1. e = [f \in DOMAIN e |-> e[f]] /\ DOMAIN e = {"iso", "token", "state", "access", "next"}
    BY <1>3 DEF Entry, EntryFields
  <2>2. ASSUME ok PROVE y.iso = e.iso /\ y.token = e.token /\ y.state = "ok" /\ y.next = t
    <3> DEFINE b == [e EXCEPT !.state = "ok"]
               c == [b EXCEPT !.access = a]
               d == [c EXCEPT !.next = t]
    <3>1. DOMAIN b = DOMAIN e /\ b.iso = e.iso /\ b.token = e.token /\ b.state = "ok"
      BY <2>1
    <3>2. y = d
      BY <2>2
    <3> HIDE DEF b, y, t, a
    <3>3. DOMAIN c = DOMAIN e /\ c.iso = e.iso /\ c.token = e.token /\ c.state = "ok"
      BY <2>1, <3>1
    <3> HIDE DEF c
    <3>4. d.iso = e.iso /\ d.token = e.token /\ d.state = "ok" /\ d.next = t
      BY <2>1, <3>3
    <3> QED
      BY <3>2, <3>4
  <2>3. ASSUME ~ok PROVE y.iso = e.iso /\ y.token = e.token /\ y.state = "ended"
    <3> HIDE DEF ok
    <3>1. y = [e EXCEPT !.state = "ended"]
      BY <2>3
    <3> QED
      BY <2>1, <3>1
  <2> HIDE DEF y, ok, t
  <2> QED
    BY <1>2, <2>2, <2>3 DEF Told
<1> HIDE DEF ok, a, t, y, w
<1>8. ASSUME NEW q \in w
      PROVE  /\ Held(srv', GotEnded(req[q])) /\ (Brings(srv', req[q]) => Brings(srv', GotEnded(req[q])))
             /\ ok => Held(srv', Got(req[q], a, t))
             /\ ok /\ t # req[q].came => Brings(srv', Got(req[q], a, t))
  <2>1. Request(srv', req[q]) /\ Held(srv', req[q]) /\ req[q].pc \in {"refresh", "again"} /\ req[q].refresh # None
    BY <1>3, <1>5, <1>6
  <2>2. Held(srv', GotEnded(req[q])) /\ (Brings(srv', req[q]) => Brings(srv', GotEnded(req[q])))
    BY <2>1, HeldGotEnded
  <2>3. CASE ok
    <3>1. Token(srv', t) /\ Recent(srv', t) /\ t # None /\ Newest(srv', t)
      BY <1>2, <2>3
    <3>2. /\ Held(srv', Got(req[q], a, t))
          /\ t # None /\ t # req[q].came /\ Newest(srv', t) => Brings(srv', Got(req[q], a, t))
      BY <1>4, <2>1, <3>1, HeldGot
    <3> QED
      BY <2>2, <3>1, <3>2
  <2> QED
    BY <2>2, <2>3
<1>9. \A q \in Slots : req'[q] = IF q \notin w THEN req[q] ELSE IF ok THEN Got(req[q], a, t) ELSE GotEnded(req[q])
  BY <1>1
<1>10. Holding'
  BY <1>6, <1>8, <1>9 DEF Holding
<1>11. Shares'
  <2>1. \A f \in shared \ {e} : f.state = "flying" => Waiting(f)' # {}
    <3> SUFFICES ASSUME NEW f \in shared, f # e, f.state = "flying" PROVE Waiting(f)' # {}
      OBVIOUS
    <3>1. PICK p \in Waiting(f) : TRUE
      BY <1>3
    <3>2. p \in Slots /\ p \notin w
      BY <1>3, <1>5, <3>1 DEF Waiting
    <3>3. p \in Waiting(f)'
      BY <1>9, <3>1, <3>2 DEF Waiting
    <3> QED
      BY <3>3
  <2>2. \A f \in shared' : f = y \/ (f \in shared /\ f # e)
    BY <1>1
  <2>3. \A f \in shared' : Told(srv', f) /\ (f.state = "flying" => Waiting(f)' # {})
    BY <1>6, <1>7, <2>1, <2>2
  <2>4. \A f, g \in shared' : f.iso = g.iso /\ f.token = g.token => f = g
    BY <1>3, <1>7, <2>2
  <2> QED
    BY <2>3, <2>4 DEF Shares
<1>12. Chased'
  <2> SUFFICES ASSUME NEW u \in Tokens(jar)
               PROVE  Recent(srv', u) /\ (Behind(srv', u) => \E p \in Slots : Brings(srv', req'[p]))
    BY <1>1 DEF Chased
  <2>1. Recent(srv', u)
    BY <1>2, <1>3, SteadyRecent
  <2>2. CASE Rotates(e.token)
    <3>1. ok
      BY <2>2 DEF ok
    <3>2. PICK p \in w : TRUE
      BY <1>1, <1>3 DEF w
    <3>3. p \in Slots /\ t # req[p].came
      BY <1>2, <1>3, <1>5, <2>2, <3>2 DEF Held
    <3>4. Brings(srv', req'[p])
      BY <1>8, <1>9, <3>1, <3>2, <3>3
    <3> QED
      BY <2>1, <3>3, <3>4
  <2>3. CASE ~Rotates(e.token)
    <3>1. \A s \in Sessions : srv'[s].gen = srv[s].gen
      BY <1>2, <2>3
    <3>2. Behind(srv', u) => Behind(srv, u)
      BY <1>2, <1>3, <3>1, SameNewest DEF Behind, Token, Refresh
    <3>3. ASSUME Behind(srv', u) PROVE \E p \in Slots : Brings(srv', req'[p])
      <4>1. PICK p \in Slots : Brings(srv, req[p])
        BY <1>3, <3>2, <3>3
      <4>2. Brings(srv', req[p])
        BY <1>3, <3>1, <4>1, SameNewest
      <4>3. CASE p \notin w
        BY <1>9, <4>2, <4>3
      <4>4. CASE p \in w /\ ~ok
        <5>1. req'[p] = GotEnded(req[p]) /\ Brings(srv', GotEnded(req[p]))
          BY <1>8, <1>9, <4>2, <4>4
        <5> QED
          BY <5>1
      <4>5. CASE p \in w /\ ok
        <5>1. Replays(e.token)
          BY <2>3, <4>5 DEF ok
        <5>2. req[p].pc \in {"refresh", "again"} /\ req[p].refresh = e.token /\ Held(srv, req[p])
          BY <1>3, <1>5, <4>5
        <5>3. e.token \in Tokens(req[p].sets)
          BY <4>1, <5>2 DEF Brings, Held, Handling, Tokens, NoCookies
        <5>4. Newest(srv, e.token)
          BY <4>1, <5>3 DEF Brings
        <5>5. e.token[2] = srv[e.token[1]].gen /\ e.token[2] < srv[e.token[1]].gen /\ e.token[2] \in Nat
          BY <1>3, <5>1, <5>4 DEF Newest, Replays, Entry, Token, Refresh
        <5> QED
          BY <5>5
      <4> QED
        BY <4>3, <4>4, <4>5
    <3> QED
      BY <2>1, <3>3
  <2> QED
    BY <2>2, <2>3
<1> QED
  BY <1>2, <1>10, <1>11, <1>12 DEF Orderly

LEMMA RefreshLostOrder ==
    ASSUME SessionInv, Orderly, NEW e \in shared, RefreshLost(e)
    PROVE  OrderInv'
<1> DEFINE w == Waiting(e)
<1>1. /\ shared' = shared \ {e} /\ jar' = jar /\ seen' = [seen EXCEPT !.lost = seen.lost \/ srv' # srv]
      /\ req' = [q \in Slots |-> IF q \in w THEN GotNothing(req[q]) ELSE req[q]]
  BY DEF RefreshLost
<1>2. Typed /\ \A q \in Slots : Request(srv, req[q]) /\ Held(srv, req[q])
  BY DEF SessionInv, Typed, Orderly, Holding
<1>3. CASE srv' # srv
  <2>1. seen'.lost
    BY <1>1, <1>2, <1>3 DEF Typed
  <2> QED
    BY <2>1 DEF OrderInv
<1>4. CASE srv' = srv
  <2>1. \A q \in w : q \in Slots /\ req[q].pc \in {"refresh", "again"} /\ req[q].iso = e.iso /\ req[q].refresh = e.token
    BY DEF Waiting
  <2>2. \A q \in Slots : Held(srv, req'[q]) /\ (Brings(srv, req[q]) => Brings(srv, req'[q]))
    BY <1>1, <1>2, <2>1, HeldGotNothing
  <2>3. Shares'
    <3> SUFFICES ASSUME NEW f \in shared, f # e, f.state = "flying" PROVE Waiting(f)' # {}
      BY <1>1, <1>4 DEF Orderly, Shares
    <3> HIDE DEF w
    <3>1. PICK p \in Waiting(f) : TRUE
      BY DEF Orderly, Shares
    <3>2. p \in Slots /\ p \notin w
      BY <2>1, <3>1 DEF Waiting, Orderly, Shares
    <3>3. p \in Waiting(f)'
      BY <1>1, <3>1, <3>2 DEF Waiting
    <3> QED
      BY <3>3
  <2>4. Unharmed' /\ Holding'
    BY <1>4, <2>2 DEF Orderly, Unharmed, Holding
  <2>5. Chased'
    BY <1>1, <1>4, <2>2 DEF Orderly, Chased
  <2>6. Orderly'
    BY <2>3, <2>4, <2>5 DEF Orderly
  <2> QED
    BY <2>6 DEF OrderInv
<1> QED
  BY <1>3, <1>4

\* A grace window closes when nothing is in flight: what is behind would be brought by no one.
LEMMA StaleOrder ==
    ASSUME SessionInv, Orderly, Quiet, srv' = Stale, UNCHANGED <<jar, req, shared>>
    PROVE  Orderly'
<1>1. StoreOK /\ Typed
  BY DEF SessionInv, Typed
<1>2. \A s \in Sessions : /\ srv'[s].gen = srv[s].gen /\ srv'[s].fresh = srv[s].gen
                            /\ srv'[s].state = srv[s].state
  <2> DEFINE old(s) == [state |-> srv[s].state, gen |-> srv[s].gen, fresh |-> srv[s].gen]
  <2>1. \A s \in Sessions : [srv[s] EXCEPT !.fresh = srv[s].gen] = old(s)
    BY <1>1, Stored, Sessioned
  <2>2. \A s \in Sessions : srv'[s] = old(s)
    BY <2>1 DEF Stale
  <2>3. \A s \in Sessions : old(s).gen = srv[s].gen /\ old(s).fresh = srv[s].gen /\ old(s).state = srv[s].state
    OBVIOUS
  <2> HIDE DEF old
  <2> QED
    BY <2>2, <2>3
<1>3. Unharmed' /\ Holding' /\ Shares'
  BY <1>2, HeldIdle DEF Orderly, Unharmed, Holding, Shares, Quiet
<1>4. Chased'
  <2> SUFFICES ASSUME NEW t \in Tokens(jar) PROVE Recent(srv', t) /\ ~Behind(srv', t)
    BY DEF Chased
  <2>1. Token(srv, t) /\ ~Behind(srv, t)
    BY <1>1, HeldIdle, CookieTokens DEF Typed, Browser, Orderly, Chased, Quiet
  <2>2. CASE t = None
    BY <2>2 DEF Recent, Behind
  <2>3. CASE t # None
    <3>1. t[1] \in Sessions /\ t[2] \in Nat /\ srv[t[1]].gen \in Nat
      BY <1>1, <2>1, <2>3, Stored, Sessioned DEF Token, Refresh
    <3>2. srv[t[1]].state = "live" => t[2] = srv[t[1]].gen
      BY <2>1, <2>3 DEF Behind, Newest
    <3> QED
      BY <1>2, <3>1, <3>2 DEF Recent, Behind, Newest
  <2> QED
    BY <2>2, <2>3
<1> QED
  BY <1>3, <1>4 DEF Orderly

LEMMA StillOrder ==
    ASSUME Orderly, UNCHANGED <<jar, req, srv>>, shared' \subseteq shared
    PROVE  Orderly'
BY DEF Orderly, Unharmed, Holding, Shares, Chased, Waiting

LEMMA OrderInit == ASSUME Init PROVE OrderInv
<1>1. First \in Sessions /\ Typed
  BY SessionInit, WebSessionAssumption DEF SessionInv
<1>2. PICK live : srv = Fresh(live)
  BY DEF Init
<1>3. \A s \in Sessions : srv[s].gen = 0 /\ srv[s].fresh = 0 /\ srv[s].state \in {"live", "none"}
  BY <1>2 DEF Fresh
<1>4. Unharmed /\ Holding /\ Shares
  BY <1>3, HeldIdle DEF Unharmed, Holding, Shares, Init
<1>5. Chased
  <2> SUFFICES ASSUME NEW t \in Tokens(jar) PROVE Recent(srv, t) /\ ~Behind(srv, t)
    BY DEF Chased
  <2>1. t = None \/ (t = <<First, 0>> /\ t[1] = First /\ t[2] = 0)
    <3>1. CASE \E a \in {None, Minted(First, TRUE)} : jar = [access |-> a, refresh |-> <<First, 0>>, original |-> None]
      <4>1. PICK a : jar = [access |-> a, refresh |-> <<First, 0>>, original |-> None]
        BY <3>1
      <4>2. jar.refresh = <<First, 0>> /\ jar.original = None
        BY <4>1
      <4> QED
        BY <4>2 DEF Tokens
    <3>2. CASE jar = [n \in Names |-> None]
      BY <3>2 DEF Tokens, Names
    <3> QED
      BY <3>1, <3>2 DEF Init
  <2> QED
    BY <1>1, <1>3, <2>1 DEF Recent, Behind, Newest
<1> QED
  BY <1>4, <1>5 DEF OrderInv, Orderly

LEMMA OrderNext == ASSUME SessionInv, OrderInv, Walkable, [Next]_vars PROVE OrderInv'
<1>1. CASE seen.lost \/ seen.crossed
  <2>1. Typed
    BY DEF SessionInv
  <2>2. \/ UNCHANGED seen \/ \E y : seen' = [seen EXCEPT !.said = y]
        \/ \E y : seen' = [seen EXCEPT !.lost = seen.lost \/ y]
        \/ \E y : seen' = [seen EXCEPT !.crossed = seen.crossed \/ y]
    BY DEF Next, vars, Send, RefreshServed, RefreshLost, ShareEnds, Sent, Resent, Impersonated, ImpersonateLost,
       Traded, Dropped, Revoked, Revocation, Land, Abandon, GraceEnds, AccessExpires, SecretChanges
  <2>3. seen'.lost \/ seen'.crossed
    BY <1>1, <2>1, <2>2 DEF Typed
  <2> QED
    BY <2>3 DEF OrderInv
<1>2. CASE Orderly
  <2>1. CASE UNCHANGED vars
    BY <1>2, <2>1, StillOrder DEF vars, OrderInv
  <2>2. ASSUME NEW q \in Slots, NEW kind \in Kinds, NEW iso \in Isolates, Send(q, kind, iso) PROVE OrderInv'
    BY <1>2, <2>2, SendOrder DEF OrderInv
  <2>3. ASSUME NEW e \in shared, RefreshServed(e) PROVE OrderInv'
    BY <1>2, <2>3, RefreshServedOrder DEF OrderInv
  <2>4. ASSUME NEW e \in shared, RefreshLost(e) PROVE OrderInv'
    BY <1>2, <2>4, RefreshLostOrder
  <2>5. ASSUME NEW q \in Slots, Sent(q) \/ Resent(q) \/ Impersonated(q) \/ Dropped(q) \/ Revoked(q) PROVE OrderInv'
    BY <1>2, <2>5, SentOrder, ResentOrder, ImpersonatedOrder, DroppedOrder, RevokedOrder DEF OrderInv
  <2>6. ASSUME NEW q \in Slots, ImpersonateLost(q) \/ Abandon(q) PROVE OrderInv'
    BY <1>2, <2>6, MissedOrder
  <2>7. ASSUME NEW q \in Slots, NEW s \in Sessions, Traded(q, s) PROVE OrderInv'
    BY <1>2, <2>7, TradedOrder DEF OrderInv
  <2>8. ASSUME NEW q \in Slots, NEW iso \in Isolates, Land(q, iso) PROVE OrderInv'
    BY <1>2, <2>8, LandOrder
  <2>9. CASE GraceEnds \/ AccessExpires
    BY <1>2, <2>9, StaleOrder DEF GraceEnds, AccessExpires, OrderInv
  <2>10. CASE SecretChanges \/ \E e \in shared : ShareEnds(e)
    BY <1>2, <2>10, StillOrder DEF SecretChanges, ShareEnds, OrderInv
  <2> QED
    BY <2>1, <2>2, <2>3, <2>4, <2>5, <2>6, <2>7, <2>8, <2>9, <2>10 DEF Next
<1> QED
  BY <1>1, <1>2 DEF OrderInv

\* A cookie the API still takes: it is recent, and the store follows it to the current one.
LEMMA Redeemable == ASSUME SessionInv, OrderInv, Walkable PROVE ReuseNeedsLoss /\ JarRedeemable
<1>1. CASE seen.lost \/ seen.crossed
  BY <1>1 DEF ReuseNeedsLoss, JarRedeemable
<1>2. CASE Orderly
  <2>1. ReuseNeedsLoss
    BY <1>2 DEF Orderly, Unharmed, ReuseNeedsLoss
  <2>2. ASSUME jar.refresh # None, Live(jar.refresh[1]) PROVE InGrace(jar.refresh)
    <3> DEFINE t == jar.refresh
    <3>1. Browser(srv, jar) /\ StoreOK
      BY DEF SessionInv, Typed
    <3>2. t \in Tokens(jar) /\ Token(srv, t)
      BY <3>1 DEF Tokens, Browser, Cookies, Names
    <3>3. t[1] \in Sessions /\ t[2] \in Nat /\ t[2] <= srv[t[1]].gen
      BY <2>2, <3>2 DEF Token, Refresh
    <3>4. srv[t[1]].gen \in Nat /\ srv[t[1]].fresh \in Nat
      BY <3>1, <3>3, Stored, Sessioned
    <3>5. srv[t[1]].fresh <= t[2]
      BY <1>2, <2>2, <3>2 DEF Orderly, Chased, Recent, Live
    <3>6. srv[t[1]].gen - srv[t[1]].fresh <= MaxWalk /\ MaxWalk \in Nat
      BY <3>3, WebSessionAssumption DEF Walkable
    <3> HIDE DEF t
    <3>7. InGrace(t)
      BY <3>3, <3>4, <3>5, <3>6 DEF InGrace
    <3> QED
      BY <3>7 DEF t
  <2> QED
    BY <2>1, <2>2 DEF JarRedeemable
<1> QED
  BY <1>1, <1>2 DEF OrderInv

\* However many requests refresh one session at once, in however many
\* processes, and however the grace window's end falls, no session is ended
\* for reuse until the browser misses a rotation or an answer lands out of
\* order (Store.Refresh, lib/bff/session.ts), as long as the store can follow
\* a retired token to the current one (sessions.go, maxWalk).
THEOREM ReusedForCause == Spec /\ []Walkable => []ReuseNeedsLoss
<1>1. Init => SessionInv /\ OrderInv
  BY SessionInit, OrderInit
<1>2. SessionInv /\ OrderInv /\ Walkable /\ [Next]_vars => SessionInv' /\ OrderInv'
  BY SessionNext, OrderNext
<1> QED
  BY <1>1, <1>2, Redeemable, PTL DEF Spec

\* With the same two exceptions, the refresh token in the browser's jar is
\* one the API takes: the current one, or one that its grace window still
\* covers, whatever order the answers that set it landed in (lib/bff/cookies.ts,
\* lib/bff/session.ts).
THEOREM JarStaysGood == Spec /\ []Walkable => []JarRedeemable
<1>1. Init => SessionInv /\ OrderInv
  BY SessionInit, OrderInit
<1>2. SessionInv /\ OrderInv /\ Walkable /\ [Next]_vars => SessionInv' /\ OrderInv'
  BY SessionNext, OrderNext
<1> QED
  BY <1>1, <1>2, Redeemable, PTL DEF Spec

============================================================================
