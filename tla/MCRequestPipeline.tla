-------------------------- MODULE MCRequestPipeline --------------------------
(***************************************************************************)
(* RequestPipeline for TLC: a global application and two virtual hosts, and *)
(* small groups of requests that meet on one address, one page, one upload  *)
(* directory or one queue.                                                 *)
(***************************************************************************)
EXTENDS RequestPipeline, TLC

CONSTANTS a, b, c, d, e, u, ip1, ip2, v1, v2, v3, main

MCIpOf == [t \in GuardTasks |-> IF t = e THEN ip2 ELSE ip1]
MCSqlLevel == [t \in Checks |-> IF t \in {a, b} THEN 2 ELSE IF t = d THEN 3 ELSE 0]
MCCodeLevel == [t \in Checks |-> IF t = e THEN 1 ELSE 0]
Guarded == [enabled |-> TRUE, sql_guard |-> TRUE, behaviour_guard |-> TRUE,
            code_injection_guard |-> TRUE, paranoia_level |-> 2]
Unguarded == [Guarded EXCEPT !.enabled = FALSE]
PatternsOnly == [Guarded EXCEPT !.behaviour_guard = FALSE, !.paranoia_level = 1]

Paths == {"/", "index.php", "admin", "admin/index.php", "data.php", "c:/x.php",
          "../x.php", "logo.png", "gone", "secret.php", "tool.php"}
MCWhitelist == Paths \ {"tool.php"}
MCScripts == [h \in {main, v1, v2} |->
    IF h = v2 THEN {"index.php"} ELSE Paths \ {"/", "admin", "logo.png", "gone"}]
MCStatics == [h \in {main, v1, v2} |-> {"logo.png"}]
MCLayout == [h \in {main, v1, v2} |->
    {"index.php"} \union (IF h = v2 THEN {"vendor/autoload.php"} ELSE {})]
MCDirIndex == [p \in Paths |-> IF p = "admin" THEN "admin/index.php" ELSE p]

----------------------------------------------------------------------------
Absent == [kind |-> "absent", host |-> main, path |-> "/", method |-> "GET",
           body |-> "ok", parts |-> <<>>, token |-> FALSE, etag |-> FALSE,
           script |-> "ok", private |-> FALSE, patient |-> TRUE]

Get(h, p) == [Absent EXCEPT !.kind = "page", !.host = h, !.path = p]
Hasty(r) == [r EXCEPT !.patient = FALSE]
Post(script) == [Get(main, "/") EXCEPT !.script = script, !.method = "POST"]
Upload(parts) == Hasty([Post("ok") EXCEPT !.parts = parts])
Admin(kind, token) == [Absent EXCEPT !.kind = kind, !.token = token]
Unblock(body) == [Admin("unblock", TRUE) EXCEPT !.body = body]

World(f, s, tm) ==
    [req |-> [t \in GuardTasks |-> IF t \in DOMAIN f THEN f[t] ELSE Absent],
     security |-> s, timeouts |-> tm, clock |-> 1]
Later(w) == [w EXCEPT !.clock = 2]

\* Attempts of one address reach the threshold while it asks for a page, or
\* while an operator unblocks it.
Sqli == {World(a :> Get(main, "/") @@ x, Guarded, FALSE)
         : x \in {b :> Get(main, "/"), c :> Get(main, "/"), u :> Unblock("ok"),
                  c :> Get(main, "gone") @@ u :> Unblock("ok")}}

\* Two requests of one address fail, a third finds it scanning.
Scans == {Later(World(c :> Post("error") @@ d :> Post("error")
                      @@ a :> Post("ok"), Guarded, FALSE))}

\* Three hosts ask for one page at the same time; a script may fail, or
\* take the executor with it.
Hosts == {World(c :> Hasty(Get(v1, "/")) @@ d :> Get(x, "/")
                @@ e :> [Get(main, "/") EXCEPT !.private = y, !.script = z],
                Unguarded, TRUE)
          : x \in {v1, v2}, y \in BOOLEAN, z \in {"ok", "panic"}}

\* Uploads together, with parts the hardening drops and a write that fails.
Uploads == {World(c :> Upload(<<"plain", "plain">>)
                  @@ d :> Upload(x), Unguarded, TRUE)
            : x \in {<<"script_extension", "plain", "php_code">>,
                     <<"unwritable", "plain">>}}

\* One request on each of the early returns.
Pages == {Get(main, "secret.php"), Get(main, "tool.php"), Get(main, "data.php"), Get(v3, "gone"),
          Get(v2, "admin"), Get(main, "c:/x.php"), Get(main, "../x.php"),
          [Get(v1, "logo.png") EXCEPT !.etag = TRUE],
          [Get(main, "/") EXCEPT !.body = "large"],
          [Get(main, "/") EXCEPT !.body = "broken"]}

Early == {World(c :> x @@ d :> Admin("cache_clear", TRUE), Guarded, TRUE)
          : x \in Pages}
         \union {World(e :> x, PatternsOnly, TRUE) : x \in Pages}
         \union {World(c :> Admin(x, y), Guarded, TRUE) :
                 x \in {"preflight", "dashboard", "status", "unknown", "challenge"},
                 y \in BOOLEAN}
         \union {World(u :> Unblock(x), Guarded, TRUE) : x \in {"large", "broken"}}

\* Requests of two addresses when only one profile is kept.
Crowd == {World(c :> Post("ok") @@ e :> Post("ok"), Guarded, FALSE)}

MCTraffic == Sqli \union Scans \union Hosts \union Uploads \union Early
                 \union Crowd

=============================================================================
