---------------------------- MODULE SessionRouting ----------------------------
(***************************************************************************)
(* Which ManagedContext a request belongs to: resolveSessionParams         *)
(* (src/interact.go), Rule 1 of getOrCreatePage (src/context_pool.go) and  *)
(* contextKey (src/context_pool_internal.go).  "" stands for a parameter   *)
(* that was not given; the names of sessions, which PagePool is about, are *)
(* left out.                                                               *)
(***************************************************************************)
EXTENDS Naturals

\* InteractRequest: is a session named, the mode, the proxy, the old flags.
\* (With or without session_id, what is not for an old flag is private.)
Request(session, mode, proxy, flag) ==
  [session |-> session, mode |-> mode, proxy |-> proxy,
   useProfile |-> flag = "use_profile", reusePage |-> flag = "reuse_page"]

\* Where no mode is given, the proxy decides between the two of a kind.
Continuing(q) == IF q.proxy = "" THEN "default" ELSE "proxy"  \* Rule 1 of #74
Fresh(q) == IF q.proxy = "" THEN "private" ELSE "proxy"

\* resolveSessionParams: the mode, with Rule 1 of getOrCreatePage applied
\* (which requests are ephemeral matters to Interaction only).
resolveSessionParams(q) ==
  CASE q.mode # "" -> q.mode
    [] q.mode = "" /\ q.session -> Continuing(q)
    [] q.mode = "" /\ ~q.session /\ (q.useProfile \/ q.reusePage) -> "default"
    [] OTHER -> Fresh(q)

\* The errors of contextKey: ErrProxyConflict, ErrProxyRequired, ErrInvalidMode.
Invalid == <<"invalid">>
Default == <<"default", "">>

\* Mutants of contextKey: the proxy of a persistent session is dropped, as it
\* once was (#97); private work shares the jar of the proxy's sessions.
contextKeyDropsProxy(mode, proxy) ==
  CASE mode = "default" -> Default
    [] mode \in {"private", ""} /\ proxy = "" -> <<"private", "">>
    [] mode \in {"private", ""} /\ proxy # "" -> <<"private-proxy", proxy>>
    [] mode = "proxy" /\ proxy # "" -> <<"proxy", proxy>>
    [] OTHER -> Invalid

contextKeyJarShared(mode, proxy) ==
  CASE mode = "default" /\ proxy = "" -> Default
    [] mode \in {"private", ""} /\ proxy = "" -> <<"private", "">>
    [] mode \in {"private", "", "proxy"} /\ proxy # "" -> <<"proxy", proxy>>
    [] OTHER -> Invalid

contextKey(mode, proxy) ==
  CASE mode = "default" /\ proxy = "" -> Default
    [] mode \in {"private", ""} /\ proxy = "" -> <<"private", "">>
    [] mode \in {"private", ""} /\ proxy # "" -> <<"private-proxy", proxy>>
    [] mode = "proxy" /\ proxy # "" -> <<"proxy", proxy>>
    [] OTHER -> Invalid

KeyOf(q) == contextKey(resolveSessionParams(q), q.proxy)
=============================================================================
