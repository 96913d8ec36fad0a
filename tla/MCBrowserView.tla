---------------------------- MODULE MCBrowserView ----------------------------
(* Two folders that can each be the configured root, one nested below the  *)
(* other with a folder between them, so that two moves can make the        *)
(* recorded parents cyclic.  Calls are interchangeable.                    *)
EXTENDS BrowserView, TLC

CONSTANTS ra, rb, a, f

SomeTrees == {(ra :> NoId) @@ (a :> ra) @@ (rb :> a) @@ (f :> a)}

CallSymmetry == Permutations(Calls)
=============================================================================
