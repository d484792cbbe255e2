----------------------------- MODULE ImageAssets ----------------------------
(***************************************************************************)
(* The image inputs of one run: ImageAssetMaterializer and                 *)
(* SecureImageDownloader (src/provider-runtime/image-assets.ts).  The      *)
(* sources of a request become files of a fresh directory, one after the   *)
(* other, and release() removes the directory.                             *)
(*                                                                         *)
(* A batch is a record; its directory exists while `dir` holds, with `n`   *)
(* images of `bytes` bytes in it.  `size` and `hops` are those of the      *)
(* image being fetched.  A source is a data URL or a link, chosen when its *)
(* turn comes.  ProviderStream decides when a batch moves.                 *)
(***************************************************************************)
EXTENDS Naturals

CONSTANTS
  MaxImages,      \* limits of the materializer
  MaxImageBytes,
  MaxTotalBytes,
  MaxRedirects

ASSUME ImageAssumption ==
  {MaxImages, MaxImageBytes, MaxTotalBytes, MaxRedirects} \subseteq Nat

\* What a request may ask for; one image too many is among them.
Batches ==
  [at : {"asked"}, wanted : 0..MaxImages + 1, n : {0}, bytes : {0}, size : {0},
   hops : {0}, dir : {FALSE}, error : {"none"}]

Sizes == 1..MaxImageBytes

\* catch: `await release()` before the error is thrown.
Failing(b) == [b EXCEPT !.at = "removing", !.error = "thrown", !.size = 0, !.hops = 0]

\* The sum is checked before the file is written.
Keep(b, size) ==
  IF b.bytes + size > MaxTotalBytes THEN Failing(b)
  ELSE [b EXCEPT !.at = "writing", !.size = size, !.hops = 0]

\* decodeDataUrl: malformed, of a wrong type or signature, too large, or fine.
Decoded(b) == {Failing(b)} \cup {Keep(b, s) : s \in Sizes}

\* isPublicIpAddress, of every address that the host has.
Checked(b) == {Failing(b), [b EXCEPT !.at = "asking"]}

\* A hop of the download: no usable URL, a name to look up, or an address.
Hop(b) == {Failing(b), [b EXCEPT !.at = "resolving"]} \cup Checked(b)

\* The loop goes to its next source, or returns the lease.
Turn(b, aborted) ==
  IF b.n = b.wanted THEN {[b EXCEPT !.at = "held"]}
  ELSE IF aborted THEN {Failing(b)}
  ELSE Decoded(b) \cup Hop(b)

\* mkdtemp comes before the try: there is nothing to remove when it fails.
Refused(b) == [b EXCEPT !.at = "refused", !.error = "thrown"]

Begun(b) == IF b.wanted > MaxImages THEN Refused(b) ELSE [b EXCEPT !.at = "making"]

Made(b, ok) ==
  {IF ok THEN [b EXCEPT !.at = "protecting", !.dir = TRUE] ELSE Refused(b)}

Protected(b, ok, aborted) == IF ok THEN Turn(b, aborted) ELSE {Failing(b)}

Written(b, ok, aborted) ==
  IF ok THEN Turn([b EXCEPT !.n = @ + 1, !.bytes = @ + b.size, !.size = 0], aborted)
  ELSE {Failing(b)}

\* The failed removal takes the place of the error it was for.
Removed(b, ok) ==
  {[b EXCEPT !.at = "refused", !.dir = ~ok, !.error = IF ok THEN @ ELSE "image_cleanup_failed",
             !.n = 0, !.bytes = 0]}

\* What materialize() awaits of the file system.
FilesAnswer(b, ok, aborted) ==
  CASE b.at = "making"     -> Made(b, ok)
    [] b.at = "protecting" -> Protected(b, ok, aborted)
    [] b.at = "writing"    -> Written(b, ok, aborted)
    [] b.at = "removing"   -> Removed(b, ok)
    [] OTHER               -> {}

\* The lookup of resolvePublicAddress fails, or gives addresses.
Resolved(b) == {Failing(b)} \cup Checked(b)

\* downloadOnce: a redirect, an image, or a failure of any kind.
Downloaded(b) ==
  {Failing(b)} \cup {Keep(b, s) : s \in Sizes}
  \cup (IF b.hops < MaxRedirects THEN Hop([b EXCEPT !.hops = @ + 1]) ELSE {})

NetworkAnswer(b) ==
  CASE b.at = "resolving" -> Resolved(b)
    [] b.at = "asking"    -> Downloaded(b)
    [] OTHER              -> {}

OnNetwork(b) == b.at \in {"resolving", "asking"}

\* An abort of the run, or the timer of the download, ends it at once.
Interrupted(b) == IF OnNetwork(b) THEN Failing(b) ELSE b

\* release() of the lease.
Released(b, ok) ==
  [b EXCEPT !.at = "released", !.dir = ~ok, !.n = IF ok THEN 0 ELSE @,
            !.bytes = IF ok THEN 0 ELSE @]

BatchOK(b) ==
  /\ b.at \in {"asked", "making", "protecting", "resolving", "asking", "writing",
               "removing", "held", "refused", "released"}
  /\ b.wanted \in 0..MaxImages + 1 /\ b.n \in 0..MaxImages
  /\ b.bytes \in 0..MaxTotalBytes /\ b.size \in 0..MaxImageBytes
  /\ b.hops \in 0..MaxRedirects /\ b.dir \in BOOLEAN
  /\ b.error \in {"none", "thrown", "image_cleanup_failed"}
=============================================================================
