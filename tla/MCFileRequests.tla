----------------------------- MODULE MCFileRequests -----------------------------
(***************************************************************************)
(* One page, which the second manifest replaces and the third drops.  The  *)
(* client also asks for it by a spelling no manifest lists, and for a page *)
(* that does not exist.                                                    *)
(***************************************************************************)
EXTENDS FileRequests, TLC

CONSTANTS img, IMG, other, a, b

MCPage == {img}
MCName == {img, IMG, other}
MCPageOf == img :> img @@ IMG :> NoPage @@ other :> NoPage
MCKey == {img, other}
MCKeyOf == img :> img @@ IMG :> img @@ other :> other
MCSize == a :> 1 @@ b :> 2
MCContent == DOMAIN MCSize
MCListing == 1 :> (img :> a) @@ 2 :> (img :> b) @@ 3 :> (img :> NoEntry)
=============================================================================
