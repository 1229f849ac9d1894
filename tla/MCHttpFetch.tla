---------------------------- MODULE MCHttpFetch ----------------------------
EXTENDS HttpFetch
(* An http URL, an https URL with an http form and the index's, which has  *)
(* none and stands for a private address too.                              *)
MCUrls == {"http", "https", "index", "private"}
MCHttps == {"https", "index", "private"}
MCLiterals == {"https"}
MCNormal == [u \in MCUrls |-> IF u = "private" THEN "index" ELSE u]
MCPlain == [u \in {"https"} |-> "http"]
(* Five bytes, with the end of a line among them. *)
MCArchive == <<97, CR, LF, 98, 99>>
MCPage == <<60>>
Reply(kind, head, chunks, to) == [kind |-> kind, head |-> head, chunks |-> chunks, to |-> to]
MCReplies ==
    {Reply(k, h, <<b>>, "http") : k \in {"sized", "unsized"}, h \in {1, 5}, b \in {MCArchive, MCPage}}
    \cup {Reply("chunked", 1, z, "http") :
             z \in {<<MCArchive>>, <<<<97, CR, LF, 98>>, <<99>>>>, <<<<97>>, <<CR, LF, 98>>, <<99>>>>}}
    \cup {Reply("garbled", 1, <<>>, "http"), Reply("refusal", 1, <<>>, "http"), Reply("refusal", 9, <<>>, "http")}
    \cup {Reply("redirect", 1, <<>>, u) : u \in MCUrls}
=============================================================================
