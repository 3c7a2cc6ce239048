------------------------- MODULE MCContextRegistry -------------------------
(***************************************************************************)
(* Small instances of ContextRegistry for TLC.                             *)
(***************************************************************************)
EXTENDS ContextRegistry, TLC

CONSTANTS g1, g2, g3, u1, r1

GetterSymmetry == Permutations(Getters)

\* The four kinds of key, one of them for two proxies, and the errors, by the
\* old parameters and by the new.
Forms == {
  Request(FALSE, "", "", "reuse_page"),   \* default
  Request(FALSE, "private", "", ""),      \* private
  Request(TRUE, "", "p", ""),             \* proxy:p, by Rule 1
  Request(FALSE, "private", "p", ""),     \* private-proxy:p
  Request(FALSE, "private", "q", ""),     \* private-proxy:q
  Request(FALSE, "", "p", "use_profile"), \* ErrProxyConflict
  Request(TRUE, "proxy", "", ""),         \* ErrProxyRequired
  Request(TRUE, "defualt", "", "")        \* ErrInvalidMode
}
=============================================================================
