------------------------------ MODULE UserData ------------------------------
(***************************************************************************)
(* The four JSON files of model_artifacts/user_data and what the methods   *)
(* of storage/workspace_store.py and app/auth/auth_service.py make of      *)
(* them.  A method maps the contents it reads to those it writes, and the  *)
(* routes of app/api map its result to a status code.  Who runs it, and    *)
(* how reads and writes interleave, is the business of UserStore and       *)
(* UserFiles.                                                              *)
(***************************************************************************)
EXTENDS Integers, Sequences, SequencesExt

CONSTANTS Users, Names,   \* sequences: the parts of the string between its colons
          Configs, Tickers, Passwords,
          Roles    \* roles an account is registered with

Files == {"workspaces", "watchlists", "alerts", "users"}

Empty == [k \in {} |-> 0]
EmptyFiles == [f \in Files |-> Empty]

\* d with key k set or removed.
With(d, k, e) == [x \in DOMAIN d \cup {k} |-> IF x = k THEN e ELSE d[x]]
Without(d, k) == [x \in DOMAIN d \ {k} |-> d[x]]

\* What a method leaves in its file, and what the client is told.
Result(d, status, body) == [data |-> d, status |-> status, body |-> body]

-------------------------------------------------------------------------------
(* WorkspaceStore.                                                         *)

\* f"{user_id}:{name}".  A colon in a user or a name is a boundary like the one
\* between them, so different pairs may have the same key.
Key(r) == r.user \o r.name

\* The routes answer 201 to a POST and 200 to a PUT.
save_workspace(d, r, status) ==
    LET workspace == [user |-> r.user, name |-> r.name, config |-> r.config]
    IN Result(With(d, Key(r), workspace), status, {workspace})

get_workspace(d, r) ==
    IF Key(r) \in DOMAIN d THEN Result(d, 200, {d[Key(r)]}) ELSE Result(d, 404, {})

\* k.startswith(f"{user_id}:")
list_workspaces(d, r) ==
    Result(d, 200, {d[k] : k \in {x \in DOMAIN d : IsStrictPrefix(r.user, x)}})

delete_workspace(d, r) ==
    IF Key(r) \in DOMAIN d THEN Result(Without(d, Key(r)), 200, {}) ELSE Result(d, 404, {})

\* data.get(user_id, [])
get_watchlist(d, r) == IF r.user \in DOMAIN d THEN d[r.user] ELSE <<>>

ReadWatchlist(d, r) == Result(d, 200, ToSet(get_watchlist(d, r)))

\* A ticker is listed once.
AppendAlways(list, t) == Append(list, t)
AppendOnce(list, t) == IF t \in ToSet(list) THEN list ELSE Append(list, t)

add_to_watchlist(d, r) ==
    LET list == AppendOnce(get_watchlist(d, r), r.ticker)
    IN Result(With(d, r.user, list), 201, ToSet(list))

\* list.remove; nothing is written for a ticker that is not on the list.
remove_from_watchlist(d, r) ==
    IF r.ticker \in ToSet(get_watchlist(d, r))
    THEN LET list == RemoveFirst(d[r.user], r.ticker)
         IN Result(With(d, r.user, list), 200, ToSet(list))
    ELSE Result(d, 200, ToSet(get_watchlist(d, r)))

\* The id is the time in milliseconds: of two alerts of one millisecond the
\* second replaces the first, whoever its owner is.
create_alert(d, r, now) ==
    Result(With(d, now, [user |-> r.user, ticker |-> r.ticker, status |-> "ACTIVE"]),
           201, {now})

get_alerts(d, r) ==
    Result(d, 200, {k \in DOMAIN d : d[k].user = r.user})

get_all_active_alerts(d) ==
    Result(d, 200, {k \in DOMAIN d : d[k].status = "ACTIVE"})

update_alert_status(d, r) ==
    IF r.id \in DOMAIN d
    THEN Result([d EXCEPT ![r.id].status = r.status], 200, {r.id})
    ELSE Result(d, 404, {})

delete_alert(d, r) ==
    IF r.id \in DOMAIN d /\ d[r.id].user = r.user
    THEN Result(Without(d, r.id), 200, {}) ELSE Result(d, 404, {})

-------------------------------------------------------------------------------
(* AuthService.                                                            *)

\* What a role may do; stored with the account.
_default_permissions(role) ==
    {"read"} \cup (IF role \in {"analyst", "quant", "admin"}
                   THEN {"write", "execute_models"} ELSE {})
             \cup (IF role \in {"quant", "admin"}
                   THEN {"portfolio_opt", "scenario_sim"} ELSE {})
             \cup (IF role = "admin" THEN {"manage_users", "flush_cache"} ELSE {})

register(d, r) ==
    IF r.user \in DOMAIN d THEN Result(d, 409, {})
    ELSE Result(With(d, r.user, [password |-> r.password, role |-> r.role,
                                 last_login |-> 0]), 201, _default_permissions(r.role))

\* The first critical section of authenticate() only reads; the password is
\* checked outside the lock.
authenticate(d, r) ==
    IF r.user \in DOMAIN d /\ d[r.user].password = r.password
    THEN Result(d, 200, _default_permissions(d[r.user].role)) ELSE Result(d, 401, {})

\* The second one reads the file again, but what is returned is the account as
\* it was read first.
update_last_login(d, r, now) ==
    Result(IF r.user \in DOMAIN d THEN [d EXCEPT ![r.user].last_login = now] ELSE d,
           200, r.body)

get_user(d, r) ==
    IF r.user \in DOMAIN d
    THEN Result(d, 200, _default_permissions(d[r.user].role)) ELSE Result(d, 404, {})

-------------------------------------------------------------------------------
(* The calls the routes make, the file each works on, and what it does.    *)

WorkspaceCalls ==
    [do : {"save_workspace", "update_workspace"}, user : Users, name : Names, config : Configs]
    \cup [do : {"get_workspace", "delete_workspace"}, user : Users, name : Names]
    \cup [do : {"list_workspaces"}, user : Users]

WatchlistCalls ==
    [do : {"get_watchlist"}, user : Users]
    \cup [do : {"add_to_watchlist", "remove_from_watchlist"}, user : Users, ticker : Tickers]

AlertCalls(ids) ==
    [do : {"create_alert"}, user : Users, ticker : Tickers]
    \cup [do : {"get_alerts"}, user : Users]
    \cup [do : {"get_all_active_alerts"}]
    \cup [do : {"update_alert_status"}, id : ids, status : {"ACTIVE", "PAUSED", "DELETED"}]
    \cup [do : {"delete_alert"}, user : Users, id : ids]

AccountCalls ==
    [do : {"register"}, user : Users, password : Passwords, role : Roles]
    \cup [do : {"authenticate"}, user : Users, password : Passwords]
    \cup [do : {"get_user"}, user : Users]

AllCalls == WorkspaceCalls \cup WatchlistCalls \cup AlertCalls(Nat) \cup AccountCalls

FileOf(r) ==
    CASE r.do \in {"save_workspace", "update_workspace", "get_workspace",
                   "list_workspaces", "delete_workspace"} -> "workspaces"
      [] r.do \in {"get_watchlist", "add_to_watchlist", "remove_from_watchlist"}
                   -> "watchlists"
      [] r.do \in {"register", "authenticate", "update_last_login", "get_user"}
                   -> "users"
      [] OTHER -> "alerts"

Do(r, d, now) ==
    CASE r.do = "save_workspace"        -> save_workspace(d, r, 201)
      [] r.do = "update_workspace"      -> save_workspace(d, r, 200)
      [] r.do = "get_workspace"         -> get_workspace(d, r)
      [] r.do = "list_workspaces"       -> list_workspaces(d, r)
      [] r.do = "delete_workspace"      -> delete_workspace(d, r)
      [] r.do = "get_watchlist"         -> ReadWatchlist(d, r)
      [] r.do = "add_to_watchlist"      -> add_to_watchlist(d, r)
      [] r.do = "remove_from_watchlist" -> remove_from_watchlist(d, r)
      [] r.do = "create_alert"          -> create_alert(d, r, now)
      [] r.do = "get_alerts"            -> get_alerts(d, r)
      [] r.do = "get_all_active_alerts" -> get_all_active_alerts(d)
      [] r.do = "update_alert_status"   -> update_alert_status(d, r)
      [] r.do = "delete_alert"          -> delete_alert(d, r)
      [] r.do = "register"              -> register(d, r)
      [] r.do = "authenticate"          -> authenticate(d, r)
      [] r.do = "update_last_login"     -> update_last_login(d, r, now)
      [] r.do = "get_user"              -> get_user(d, r)
=============================================================================
