--------------------------- MODULE MCSingleSignOn ---------------------------
(* Small instances of single sign-on for TLC. *)
EXTENDS SignOnProperties, TLC

CONSTANTS r1, r2, b1, b2, web, api

\* Two browsers, each with a tab of the same site.
TabBrowser == r1 :> b1 @@ r2 :> b2
TabSite == [r \in {r1, r2} |-> web]

\* One browser with two tabs, of two sites.
OneBrowser == [r \in {r1, r2} |-> b1]
TwoSites == r1 :> web @@ r2 :> api

Symmetric == Permutations(Users)

\* Nothing that is done depends on what is left out, nor does a property.
View == <<now, nCounter, cache, call, handed, spent, lost, cookies, tab, proven>>
=============================================================================
