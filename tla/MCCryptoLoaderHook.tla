--------------------------- MODULE MCCryptoLoaderHook ---------------------------
(***************************************************************************)
(* A file, a manifest that replaces it, and one or two threads.            *)
(***************************************************************************)
EXTENDS CryptoLoaderHook, TLC

CONSTANTS img, a, b

MCPage == {img}
MCContent == {a, b}
MCListing == 1 :> (img :> a) @@ 2 :> (img :> b)
MCManifest == DOMAIN MCListing

\* A bound: a manifest that has not changed is not published once more.
PublishesNew == coming' # listed /\ (held /\ ~held' => listed' # listed)
=============================================================================
