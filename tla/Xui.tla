--------------------------------- MODULE Xui ---------------------------------
(* XUIClient of services/panels/xui.py: the one object of a server that all   *)
(* screens and loops of the bot share.  A call of it is a coroutine; between  *)
(* two of its requests others run, and they share its HTTP session, cookies,  *)
(* CSRF token, bearer token and API profile.                                  *)
(*                                                                            *)
(* This module is the panel and the session: the retries of _request and the  *)
(* ways to log in.  The exchanges of a login are one step each; a request is  *)
(* sent in one step, served in another and answered in a third.               *)
EXTENDS Integers, FiniteSets

(* ------------------------------- the panel ------------------------------- *)
(* A 3X-UI panel as XUIClient meets it: who it lets in, which endpoints its   *)
(* release has, and the clients it keeps of one email.  The panel is not part *)
(* of the repository: what it does is what the branches of XUIClient expect.  *)
(* Release 1 is 2.x (cookie only), release 2 is 3.0 (CSRF and a bearer token, *)
(* clients inside inbounds), release 3 is 3.1 (clients are records of their   *)
(* own, attached to inbounds).                                                *)
CONSTANTS
    None,
    Inbounds,
    Sids,           \* HTTP sessions, with a cookie jar each
    Tasks,          \* coroutines of the bot that call its client
    MaxTokens,      \* bound: tokens the panel ever makes
    MaxUntil,       \* bound: the last day a client runs to
    Refusals        \* how a panel turns away whom it does not know

ASSUME PanelAssumption ==
    /\ IsFiniteSet(Inbounds) /\ Inbounds \subseteq Nat
    /\ MaxTokens \in Nat /\ MaxUntil \in Nat
    /\ None \notin Tasks
    /\ Refusals # {} /\ Refusals \subseteq {"401", "404", "login"}

VARIABLE pan

Releases == 1 .. 3
Ids == (Tasks \cup {None}) \X BOOLEAN      \* UUIDs, by the call that made them
TokenStates == {"on", "off", "gone"}
Client == [id : Ids, on : BOOLEAN, until : 0 .. MaxUntil, cap : 0 .. 1, flow : BOOLEAN]
Entries == [Inbounds -> Client \cup {None}]
Carrying(entries) == {i \in Inbounds : entries[i] # None}
Panel == [release : Releases, logged : SUBSET Sids, csrf : SUBSET Sids,
          token : 0 .. MaxTokens, state : TokenStates, clients : Entries]

(* ------------------------------- requests -------------------------------- *)
OldKinds == {"oldAdd", "oldEdit", "oldDel", "oldReset", "oldOnlines"}
NewKinds == {"record", "create", "attach", "flow", "edit", "del", "detach",
             "reset", "onlines"}
Kinds == OldKinds \cup NewKinds \cup {"list", "settings", "settingsApi"}
Reads == {"list", "record"}
CookieRoute(kind) == kind = "settings"

\* The endpoints of /panel/api/inbounds that 3.1 dropped.
_is_legacy_client_endpoint(kind) == kind \in OldKinds

Exists(kind) ==
    /\ kind \in OldKinds => pan.release < 3
    /\ kind \in NewKinds => pan.release = 3
    /\ kind # "settingsApi"

Knows(cred) == IF cred.token # None
               THEN pan.state = "on" /\ cred.token = pan.token
               ELSE cred.sess \in pan.logged
CsrfHolds(kind, cred) ==
    \/ cred.token # None \/ pan.release = 1 \/ kind \in Reads
    \/ cred.csrf = cred.sess /\ cred.sess \in pan.csrf

\* Every inbound that carries the client gets what is written.
Rewrite(S, load) == [i \in Inbounds |->
    IF i \in S /\ pan.clients[i] # None
    THEN [load EXCEPT !.id = pan.clients[i].id] ELSE pan.clients[i]]
Without(S) == [i \in Inbounds |-> IF i \in S THEN None ELSE pan.clients[i]]
With(i, client) == [pan.clients EXCEPT ![i] = client]

\* What the request does to the clients, if there is what it needs.
Possible(req) ==
    LET S == Carrying(pan.clients)
    IN  CASE req.kind \in {"record", "attach", "flow", "edit", "del", "detach", "reset"} ->
                 req.known /\ S # {}
          [] req.kind = "create" -> S = {}
          [] req.kind = "oldAdd" -> req.ib \notin S
          [] req.kind \in {"oldEdit", "oldDel", "oldReset"} -> req.ib \in S
          [] OTHER -> TRUE
Effect(req) ==
    CASE req.kind \in {"create", "oldAdd"} -> With(req.ib, req.load)
      [] req.kind = "attach" ->
            With(req.ib, pan.clients[CHOOSE i \in Carrying(pan.clients) : TRUE])
      [] req.kind \in {"flow", "edit"} -> Rewrite(Inbounds, req.load)
      [] req.kind = "oldEdit" -> Rewrite({req.ib}, req.load)
      [] req.kind = "del" -> Without(Inbounds)
      [] req.kind \in {"detach", "oldDel"} -> Without({req.ib})
      [] OTHER -> pan.clients

\* The answers a request can get from the panel as it is.
Answers(req, cred) ==
    IF ~Knows(cred) \/ ~CsrfHolds(req.kind, cred)
    THEN (IF Knows(cred) THEN {} ELSE Refusals)
         \cup (IF CsrfHolds(req.kind, cred) THEN {} ELSE {"403"})
    ELSE IF ~Exists(req.kind) THEN {"404"}
    ELSE IF Possible(req) THEN {"ok"} ELSE {"refused"}

(* ------------------------------ its own life ----------------------------- *)
\* The clients become records: one for the email, attached to its inbounds.
Merged == LET S == Carrying(pan.clients)
          IN  IF S = {} THEN pan.clients
              ELSE LET one == pan.clients[CHOOSE i \in S : \A j \in S : i <= j]
                   IN  [i \in Inbounds |-> IF i \in S THEN one ELSE None]
Upgraded == [pan EXCEPT !.release = @ + 1, !.logged = {}, !.csrf = {},
                        !.clients = IF pan.release = 2 THEN Merged ELSE @]
Restarted == [pan EXCEPT !.logged = {}, !.csrf = {}]
Rotated == [pan EXCEPT !.token = @ + 1, !.state = "on"]
Revoked(to) == [pan EXCEPT !.state = to]

(* ------------------------------- the client ------------------------------ *)
CONSTANTS
    Attempts,       \* RETRY_CONFIG["max_attempts"]
    MaxSlips,       \* bound: exchanges that fail on the way
    MaxChanges      \* bound: changes on the panel's side and restarts of the bot

ASSUME XuiAssumption ==
    /\ Attempts \in Nat \ {0} /\ MaxSlips \in Nat /\ MaxChanges \in Nat

VARIABLES
    cli,        \* the fields of the XUIClient
    saved,      \* servers.api_token and servers.panel_api_profile
    tasks,      \* the coroutines
    slips,      \* failures so far
    changes,    \* changes so far
    crew,       \* who calls what, in this behaviour
    calm        \* history: the last call, if it ran alone and undisturbed

vars == <<pan, cli, saved, tasks, slips, changes, crew, calm>>

Token == 0 .. MaxTokens
Modes == {"legacy", "csrf", "bearer"}
Profiles == {"legacy_inbounds", "clients_api"}
Levels == {"rest", "profile", "validate", "probe", "login", "token", "meta", "ready",
           "call", "wire", "served", "recheck", "recsrf", "back", "thrown", "stale"}

\* __init__: the object of a server as it is made from its row.
Fresh(row) == [session |-> None, authed |-> FALSE, cookie |-> FALSE, csrf |-> None,
               token |-> row.token, mode |-> None, profile |-> row.profile, verified |-> FALSE]

NoCred == [token |-> None, csrf |-> None, sess |-> None]
NoReq == [kind |-> "list", ib |-> None, load |-> None, known |-> TRUE]
NoReply == [code |-> "none", data |-> [i \in Inbounds |-> None]]
Idle == [op |-> None, ib |-> None, at |-> "rest", lvl |-> "rest", after |-> "none",
         req |-> NoReq, n |-> 1, sess |-> None, mode |-> None, bearer |-> None,
         cred |-> NoCred, reply |-> NoReply, again |-> FALSE, prof |-> None,
         seen |-> [i \in Inbounds |-> None], left |-> {}, tries |-> 0,
         aim |-> None, answer |-> None, uuid |-> None, lone |-> 0, had |-> {}, spoiled |-> FALSE]

Becomes(t, task) == tasks' = [tasks EXCEPT ![t] = task]
At(t, lvl) == tasks[t].lvl = lvl

(* ------------------------------- the session ----------------------------- *)
Held == {cli.session} \cup {tasks[t].sess : t \in Tasks}
NewSid == CHOOSE s \in Sids : s \notin Held

\* A session is made if there is none; nothing is logged in on it.
_ensure_session(c) ==
    IF c.session # None THEN c
    ELSE [c EXCEPT !.session = NewSid, !.authed = FALSE, !.cookie = FALSE]
Known(p) == IF cli.session # None THEN p
            ELSE [p EXCEPT !.logged = @ \ {NewSid}, !.csrf = @ \ {NewSid}]

\* The session is closed: every request in flight on it fails.
_reset_session(c) ==
    [c EXCEPT !.session = None, !.authed = FALSE, !.cookie = FALSE, !.csrf = None]

\* The bearer token is dropped, here and in the row of the server.
_invalidate_api_token(c, row) ==
    IF c.token = None THEN [c |-> c, row |-> row]
    ELSE [c |-> [c EXCEPT !.token = None, !.mode = None],
          row |-> [row EXCEPT !.token = None]]

_save_api_token(c, row, token) ==
    [c |-> [c EXCEPT !.token = token, !.mode = "bearer"], row |-> [row EXCEPT !.token = token]]
_save_panel_info(row, profile) == [row EXCEPT !.profile = profile]

\* Bearer, or the CSRF token for what changes something.
_build_headers(c, kind, sess) ==
    LET bearer == c.mode = "bearer" /\ c.token # None /\ ~CookieRoute(kind)
    IN  [token |-> IF bearer THEN c.token ELSE None,
         csrf |-> IF bearer \/ kind \in Reads THEN None ELSE c.csrf,
         sess |-> sess]

(* -------------------------------- _request ------------------------------- *)
NoRetry == {"record", "create", "attach", "flow", "oldAdd", "settings", "settingsApi",
            "onlines", "oldOnlines"}
AttemptsOf(kind) == IF kind \in NoRetry THEN 1 ELSE Attempts

\* A method of the client asks for something and goes on at label at.
Ask(task, kind, ib, load, at) ==
    [task EXCEPT !.at = at, !.lvl = "call", !.n = 1, !.reply = NoReply,
                 !.req = [kind |-> kind, ib |-> ib, load |-> load, known |-> TRUE]]

Settled(task) == [task EXCEPT !.sess = None, !.cred = NoCred, !.mode = None, !.bearer = None,
                              !.after = "none", !.n = 1]
Throw(task) == [Settled(task) EXCEPT !.lvl = "thrown", !.reply = NoReply]

\* Mistake: the retries run out one too early.
FailEarly(task) ==
    IF task.n + 1 < AttemptsOf(task.req.kind)
    THEN [Settled(task) EXCEPT !.lvl = "call", !.n = task.n + 1, !.reply = NoReply]
    ELSE Throw(task)

\* The next attempt, or the error of the last.
Fail(task) ==
    IF task.n < AttemptsOf(task.req.kind)
    THEN [Settled(task) EXCEPT !.lvl = "call", !.n = task.n + 1, !.reply = NoReply]
    ELSE Throw(task)

NeedsCookie(task, c) == CookieRoute(task.req.kind) /\ ~c.cookie

\* A setting route of old needs a cookie login even beside a bearer token.
_ensure_cookie_auth(task, c) ==
    [task EXCEPT !.lvl = "probe", !.after = "cookie",
                 !.bearer = IF c.mode = "bearer" THEN c.token ELSE None]

\* The request leaves on the session taken when the attempt began: it fails at
\* once, and is not tried again, when another task has closed that meanwhile.
Dispatch(task, c) ==
    IF task.sess # c.session THEN Throw(task)
    ELSE [task EXCEPT !.lvl = "wire", !.after = "none", !.mode = None, !.bearer = None,
                      !.cred = _build_headers(c, task.req.kind, task.sess)]

\* Where login() begins.
LoginEntry(c) == IF c.token # None THEN "validate" ELSE "probe"

\* The head of the loop: a session, a login, a cookie login, the request.
Attempt(t) ==
    LET c == _ensure_session(cli)
        task == [tasks[t] EXCEPT !.sess = c.session]
    IN  /\ At(t, "call") /\ cli' = c /\ pan' = Known(pan)
        /\ Becomes(t, IF ~c.authed
                      THEN [task EXCEPT !.lvl = LoginEntry(c), !.after = "send"]
                      ELSE IF NeedsCookie(task, c) THEN _ensure_cookie_auth(task, c)
                      ELSE Dispatch(task, c))
        /\ UNCHANGED <<saved, slips, changes, crew, calm>>

\* A client that is gone or another one spoils what was said of it.
Spoiled(clients) ==
    \E i \in Inbounds : /\ pan.clients[i] # None
                       /\ (clients[i] = None \/ clients[i].id # pan.clients[i].id)
Spoil(clients, others) ==
    IF Spoiled(clients) THEN [u \in Tasks |-> [others[u] EXCEPT !.spoiled = TRUE]] ELSE others

\* The panel serves a request that is on its way.
Serve(t) ==
    LET task == tasks[t]
    IN  /\ At(t, "wire")
        /\ \E code \in Answers(task.req, task.cred) :
            LET ok == code = "ok"
                clients == IF ok THEN Effect(task.req) ELSE pan.clients
                reply == [code |-> code, data |-> IF ok /\ task.req.kind \in Reads
                                                  THEN clients ELSE NoReply.data]
            IN  /\ pan' = [pan EXCEPT !.clients = clients]
                /\ tasks' = Spoil(clients, [tasks EXCEPT ![t] =
                                  [task EXCEPT !.lvl = "served", !.reply = reply]])
        /\ UNCHANGED <<cli, saved, slips, changes, crew, calm>>

\* A request or its answer is lost, or its session is closed under it.
Lose(t) ==
    LET task == tasks[t]
        lost == [task EXCEPT !.lvl = "served", !.reply = [NoReply EXCEPT !.code = "lost"]]
        cut == task.sess # cli.session
    IN  /\ task.lvl \in {"wire", "served"} /\ task.reply.code # "lost"
        /\ cut \/ slips < MaxSlips
        /\ slips' = IF cut THEN slips ELSE slips + 1
        /\ calm' = IF cut THEN calm ELSE None
        /\ tasks' = IF cut THEN [tasks EXCEPT ![t] = lost]
                    ELSE [u \in Tasks |-> [(IF u = t THEN lost ELSE tasks[u]) EXCEPT !.lone = 0]]
        /\ UNCHANGED <<pan, cli, saved, changes, crew>>

\* The answer is the one asked for, or the panel refuses for a reason of its own.
Receive(t) ==
    LET task == tasks[t]
    IN  /\ At(t, "served") /\ task.reply.code \in {"ok", "refused"}
        /\ Becomes(t, IF task.reply.code = "refused" THEN Throw(task)
                      ELSE [Settled(task) EXCEPT !.lvl = "back"])
        /\ UNCHANGED <<pan, cli, saved, slips, changes, crew, calm>>

\* A page that wants a login: the session is replaced and the request repeated.
Relogin(t) ==
    LET task == tasks[t]
    IN  /\ At(t, "served") /\ task.reply.code \in {"login", "lost"}
        /\ cli' = _reset_session(cli) /\ Becomes(t, Fail(task))
        /\ UNCHANGED <<pan, saved, slips, changes, crew, calm>>

\* 401: the bearer token goes with the session.
Unauthorized(t) ==
    LET task == tasks[t]
        bearer == cli.mode = "bearer" /\ ~CookieRoute(task.req.kind)
        new == IF bearer THEN _invalidate_api_token(cli, saved) ELSE [c |-> cli, row |-> saved]
    IN  /\ At(t, "served") /\ task.reply.code = "401"
        /\ cli' = _reset_session(new.c) /\ saved' = new.row /\ Becomes(t, Fail(task))
        /\ UNCHANGED <<pan, slips, changes, crew, calm>>

\* 404: an old endpoint may be gone for good; else the session may be.
NotFound(t) ==
    LET task == tasks[t]
        stale == cli.profile = "legacy_inbounds" /\ _is_legacy_client_endpoint(task.req.kind)
    IN  /\ At(t, "served") /\ task.reply.code = "404"
        /\ IF stale THEN /\ Becomes(t, [task EXCEPT !.lvl = "recheck"])
                         /\ UNCHANGED cli
           ELSE cli' = _reset_session(cli) /\ Becomes(t, Fail(task))
        /\ UNCHANGED <<pan, saved, slips, changes, crew, calm>>

\* 403: the CSRF token is fetched again, but for a bearer token.
Forbidden(t) ==
    LET task == tasks[t]
    IN  /\ At(t, "served") /\ task.reply.code = "403"
        /\ Becomes(t, IF cli.mode = "csrf" \/ CookieRoute(task.req.kind)
                      THEN [task EXCEPT !.lvl = "recsrf"] ELSE Throw(task))
        /\ UNCHANGED <<pan, cli, saved, slips, changes, crew, calm>>

(* --------------------------------- login --------------------------------- *)
\* One exchange outside _request: it may fail, which disturbs what runs.
Slip == slips < MaxSlips /\ slips' = slips + 1 /\ calm' = None
Lonely(t, task) == [u \in Tasks |-> [(IF u = t THEN task ELSE tasks[u]) EXCEPT !.lone = 0]]

\* TransientPanelError: caught by _request, but not where a profile is asked for.
Transient(t) ==
    /\ Slip
    /\ IF tasks[t].after = "profile"
       THEN tasks' = Lonely(t, Throw(tasks[t])) /\ UNCHANGED cli
       ELSE tasks' = Lonely(t, Fail(tasks[t])) /\ cli' = _reset_session(cli)
    /\ UNCHANGED <<pan, saved, changes, crew>>

\* login() is over: the request, the cookie login it needs, or the profile.
Entered(task, c) ==
    IF task.after = "profile"
    THEN [Settled(task) EXCEPT !.lvl = "ready", !.prof = c.profile]
    ELSE IF task.after = "send" /\ NeedsCookie(task, c) THEN _ensure_cookie_auth(task, c)
    ELSE Dispatch(task, c)

\* The saved token is tried; one that fails is forgotten.
_try_bearer_validate(t) ==
    LET task == tasks[t]
        c == _ensure_session(cli)
        holds == Knows([NoCred EXCEPT !.token = c.token])
        new == _invalidate_api_token(c, saved)
    IN  /\ At(t, "validate")
        /\ \/ /\ pan' = Known(pan)
              /\ IF holds \/ c.token = None
                 THEN /\ cli' = [c EXCEPT !.mode = "bearer", !.authed = TRUE, !.cookie = FALSE]
                      /\ Becomes(t, [task EXCEPT !.lvl = "meta"]) /\ UNCHANGED saved
                 ELSE /\ cli' = new.c /\ saved' = new.row
                      /\ Becomes(t, [task EXCEPT !.lvl = "probe"])
              /\ UNCHANGED <<slips, changes, crew, calm>>
           \/ Transient(t)

\* GET /csrf-token tells 3.x from 2.x.
_detect_panel_version(c) ==
    IF pan.release = 1 THEN [mode |-> "legacy", csrf |-> None]
    ELSE [mode |-> "csrf", csrf |-> c.session]

\* The probe before a cookie login: its mode is the client's from here on.
Probe(t) ==
    LET task == tasks[t]
        c == _ensure_session(cli)
        got == _detect_panel_version(c)
    IN  /\ At(t, "probe")
        /\ \/ /\ cli' = [c EXCEPT !.mode = got.mode, !.csrf = got.csrf]
              /\ pan' = [Known(pan) EXCEPT !.csrf = IF got.csrf = None THEN @ ELSE @ \cup {c.session}]
              /\ Becomes(t, [task EXCEPT !.lvl = "login", !.mode = got.mode])
              /\ UNCHANGED <<saved, slips, changes, crew, calm>>
           \/ Transient(t)

\* Beside a bearer token a cookie login leaves the mode as it was.
RestoreBearer(task, c) ==
    IF task.bearer = None THEN c
    ELSE [c EXCEPT !.token = task.bearer, !.mode = "bearer", !.authed = TRUE]

\* POST /login; 3.x refuses it without a CSRF token of the session.
_login_with_cookie(t) ==
    LET task == tasks[t]
        c == _ensure_session(cli)
        in == [c EXCEPT !.authed = TRUE, !.cookie = TRUE]
        out == RestoreBearer(task, in)
        accepted == pan.release = 1
                    \/ (task.mode = "csrf" /\ c.csrf = c.session /\ c.session \in pan.csrf)
    IN  /\ At(t, "login")
        /\ \/ /\ accepted
              /\ pan' = [Known(pan) EXCEPT !.logged = @ \cup {c.session}]
              /\ IF task.after = "cookie"
                 THEN cli' = out /\ Becomes(t, Entered(task, out))
                 ELSE /\ cli' = in
                      /\ Becomes(t, [task EXCEPT !.lvl = IF task.mode = "csrf" THEN "token" ELSE "meta"])
              /\ UNCHANGED <<saved, slips, changes, crew, calm>>
           \/ /\ ~accepted
              /\ cli' = c /\ pan' = Known(pan) /\ Becomes(t, Throw(task))
              /\ UNCHANGED <<saved, slips, changes, crew, calm>>
           \/ Transient(t)

\* The bot's token is read from the panel, or made; a disabled one is left alone.
\* Without an answer the client stays with its cookie.
_fetch_api_token(t) ==
    LET task == tasks[t]
        c == _ensure_session(cli)
        open == c.csrf # None /\ c.session \in pan.logged
        token == IF pan.state = "gone" THEN pan.token + 1 ELSE pan.token
        new == _save_api_token(c, saved, token)
    IN  /\ At(t, "token")
        /\ \/ /\ open /\ pan.state # "off" /\ token <= MaxTokens
              /\ cli' = new.c /\ saved' = new.row
              /\ pan' = [Known(pan) EXCEPT !.token = token, !.state = "on"]
              /\ Becomes(t, [task EXCEPT !.lvl = "meta"])
              /\ UNCHANGED <<slips, changes, crew, calm>>
           \/ /\ ~open \/ pan.state = "off"
              /\ cli' = c /\ pan' = Known(pan) /\ Becomes(t, [task EXCEPT !.lvl = "meta"])
              /\ UNCHANGED <<saved, slips, changes, crew, calm>>
           \/ /\ Slip /\ cli' = c /\ pan' = Known(pan)
              /\ tasks' = Lonely(t, [task EXCEPT !.lvl = "meta"])
              /\ UNCHANGED <<saved, changes, crew>>

\* The probe of the clients API: a failure counts as its absence.
_detect_api_profile(c) ==
    IF Knows(_build_headers(c, "list", c.session)) /\ pan.release = 3
    THEN "clients_api" ELSE "legacy_inbounds"
_refresh_panel_metadata(t, profile, next) ==
    /\ cli' = [_ensure_session(cli) EXCEPT !.profile = profile, !.verified = TRUE]
    /\ saved' = _save_panel_info(saved, profile)
    /\ pan' = Known(pan) /\ Becomes(t, next)

\* The end of login(), and what _ensure_api_profile does by itself.
Metadata(t) ==
    LET task == tasks[t]
        c == _ensure_session(cli)
        Told(profile) == [c EXCEPT !.profile = profile, !.verified = TRUE]
    IN  /\ At(t, "meta")
        /\ \/ /\ _refresh_panel_metadata(t, _detect_api_profile(c),
                                         Entered(task, Told(_detect_api_profile(c))))
              /\ UNCHANGED <<slips, changes, crew, calm>>
           \/ /\ Slip
              /\ cli' = Told("legacy_inbounds") /\ saved' = _save_panel_info(saved, "legacy_inbounds")
              /\ tasks' = Lonely(t, Entered(task, Told("legacy_inbounds")))
              /\ pan' = Known(pan) /\ UNCHANGED <<changes, crew>>

\* 404 on an old endpoint: if the profile has changed the call starts anew.
_raise_if_stale_legacy_profile(t) ==
    LET task == tasks[t]
        c == _ensure_session(cli)
        profile == _detect_api_profile(c)
        told == [c EXCEPT !.profile = profile, !.verified = TRUE]
    IN  /\ At(t, "recheck")
        /\ pan' = Known(pan)
        /\ \/ /\ profile = "clients_api"
              /\ cli' = told /\ saved' = _save_panel_info(saved, profile)
              /\ Becomes(t, [Throw(task) EXCEPT !.lvl = "stale"])
              /\ UNCHANGED <<slips, changes, crew, calm>>
           \/ /\ profile = "legacy_inbounds"
              /\ cli' = _reset_session(told) /\ saved' = _save_panel_info(saved, profile)
              /\ Becomes(t, Fail(task))
              /\ UNCHANGED <<slips, changes, crew, calm>>
           \/ /\ Slip
              /\ cli' = _reset_session([told EXCEPT !.profile = "legacy_inbounds"])
              /\ saved' = _save_panel_info(saved, "legacy_inbounds")
              /\ tasks' = Lonely(t, Fail(task)) /\ UNCHANGED <<changes, crew>>

\* 403: a new CSRF token for the session, and the next attempt.
RefetchCsrf(t) ==
    LET task == tasks[t]
        c == _ensure_session(cli)
        got == _detect_panel_version(c)
    IN  /\ At(t, "recsrf")
        /\ \/ /\ cli' = IF got.mode = "csrf" THEN [c EXCEPT !.csrf = got.csrf] ELSE c
              /\ pan' = [Known(pan) EXCEPT !.csrf = IF got.csrf = None THEN @ ELSE @ \cup {c.session}]
              /\ Becomes(t, IF got.mode = "csrf" THEN Fail(task) ELSE Throw(task))
              /\ UNCHANGED <<saved, slips, changes, crew, calm>>
           \/ Transient(t)

\* A call begins with the profile of the panel, and with a login if need be.
_ensure_api_profile(t) ==
    LET task == tasks[t]
    IN  /\ At(t, "profile")
        /\ Becomes(t, IF ~cli.authed THEN [task EXCEPT !.lvl = LoginEntry(cli), !.after = "profile"]
                      ELSE IF cli.verified THEN [task EXCEPT !.lvl = "ready", !.prof = cli.profile]
                      ELSE [task EXCEPT !.lvl = "meta", !.after = "profile"])
        /\ UNCHANGED <<pan, cli, saved, slips, changes, crew, calm>>
=============================================================================
