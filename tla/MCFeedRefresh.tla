--------------------------- MODULE MCFeedRefresh ---------------------------
(* Two documents: a second entry joins the first, which the second         *)
(* document has changed.                                                   *)
EXTENDS FeedRefresh
CONSTANTS a, b
AThenBoth == <<<<a>>, <<b, a>>>>
=============================================================================
