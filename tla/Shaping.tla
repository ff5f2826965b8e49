------------------------------ MODULE Shaping -------------------------------
(***************************************************************************)
(* The post hooks that change an answer or look at it: gzip compression,   *)
(* the limit on the size of a body, and what the metrics hook takes for an *)
(* error.  Bodies are sizes, with the number of times they are gzipped.    *)
(***************************************************************************)
EXTENDS Gates

CONSTANTS
    HasGzip,     \* the Accept-Encoding texts that contain "gzip"
    base_type,   \* content type |-> its media type in small letters, where
                 \* they differ
    gzip         \* the length of a body of some length, compressed

ASSUME ShapingAssumption ==
    /\ DOMAIN gzip \subseteq Nat /\ gzip \in [DOMAIN gzip -> DOMAIN gzip]
    /\ {0, NoteSize} \subseteq DOMAIN gzip

-----------------------------------------------------------------------------
CompressionConfig(f) == f.min_bytes >= 0 /\ f.compressible_types # {}

ContentTypeCompressible(f, c) ==
    LET t == c.response_headers.type IN
    (IF t \in DOMAIN base_type THEN base_type[t] ELSE t)
        \in {Lower(u) : u \in f.compressible_types}

Compresses(f, c) ==
    /\ f.enabled
    /\ GetOr(c.headers, "Accept-Encoding", "") \in HasGzip
    /\ c.response_body.size # 0 /\ c.response_body.size >= f.min_bytes
    /\ ContentTypeCompressible(f, c)

Compressed(b) == [b EXCEPT !.size = gzip[b.size], !.gzips = @ + 1]

(* A plausible slip: the old length stays.                                 *)
CompressionKeepsLength(f, c) ==
    IF ~Compresses(f, c) THEN c
    ELSE [c EXCEPT !.response_body = Compressed(@),
                   !.response_headers.encoding = "gzip"]

(* Nothing asks for the encoding the body already has, and a length under  *)
(* the name "content-length" stays.                                        *)
Compression(f, c) ==
    IF ~Compresses(f, c) THEN c
    ELSE [c EXCEPT !.response_body = Compressed(@),
                   !.response_headers.encoding = "gzip",
                   !.response_headers.length = {gzip[c.response_body.size]}]

-----------------------------------------------------------------------------
ResponseSizeConfig(f) == f.max_bytes \in Nat \ {0} /\ f.header_name # ""

(* headers.get("Content-Length") or headers.get("content-length"), if it   *)
(* is a number: one that is none hides the other.                          *)
ContentLength(c) ==
    LET h == c.response_headers IN
    (IF h.length # {} THEN h.length ELSE h.small_length) \ {None}

(* A plausible slip: no length, no limit.                                  *)
SizesDeclared(c) == ContentLength(c)

(* The size that is compared, as a one-element set: the declared one, or   *)
(* else the body's.                                                        *)
Sizes(c) ==
    IF ContentLength(c) # {} THEN ContentLength(c) ELSE {c.response_body.size}

(* An answer within the limit gets a header, taken to be one that no hook  *)
(* reads.                                                                  *)
ResponseSize(f, c) ==
    IF f.enabled /\ \E n \in Sizes(c) : n > f.max_bytes
    THEN [Refuse(c, 502, "limit") EXCEPT !.response_headers = TextPlain]
    ELSE c

-----------------------------------------------------------------------------
(* A plausible slip: off by one.                                           *)
IsErrorAbove500(status) == status > 500 \/ status = 0

(* is_error of the metrics hook: no status counts as one, so every answer  *)
(* that is given in ctx.response alone does.                               *)
IsError(status) == status >= 500 \/ status = 0

(* The retry hook asks its RetryConfig for retryable_statuses, a field it  *)
(* does not have, as soon as there is a status.                            *)
RetryRaises(c) == c.response.status # 0
=============================================================================
