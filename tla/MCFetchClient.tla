---------------------------- MODULE MCFetchClient ---------------------------
(* FetchClient with four pages: a few words, a Cloudflare challenge, a long  *)
(* text with a block message, which a 403 makes a wall, and the beginning of *)
(* one, which is a wall.  A few words may be the beginning of any.           *)
EXTENDS FetchClient

Note == [title |-> FALSE, cf |-> FALSE, captcha |-> FALSE, wall |-> FALSE,
         small |-> TRUE, terse |-> TRUE]

Challenge == [Note EXCEPT !.cf = TRUE, !.title = TRUE, !.small = FALSE]
Quote == [Note EXCEPT !.wall = TRUE, !.small = FALSE, !.terse = FALSE]
QuoteBegun == [Note EXCEPT !.wall = TRUE]

\* No header (or one that does not parse), a negative number, less than the
\* cap, more, and so much that the product overflows.
Headers == {0, -1, 2, 9, 16}

Pages == {Note, Challenge, Quote, QuoteBegun}
=============================================================================
