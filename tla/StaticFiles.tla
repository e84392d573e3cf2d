----------------------------- MODULE StaticFiles -----------------------------
(***************************************************************************)
(* Static files: core/src/handler/static_files.rs on top of                 *)
(* std-server/src/fs_assets.rs.  A relative path is a sequence of segments, *)
(* an absolute one too, from the root of the file system; a segment is a    *)
(* sequence of symbols whose last may be an extension (".html").            *)
(***************************************************************************)
EXTENDS Paths, Conditional, FiniteSets

CONSTANTS
    Root,           \* static.root, canonical
    Links,          \* symbolic links: absolute path -> absolute target
    IndexFiles,     \* static.index_files, a sequence of segments
    MimeOverrides   \* mime_overrides: extension -> media type

ASSUME IndexFilesAssumption == IndexFiles \in Seq(Seq(STRING))

Decodes ==
    ("%2e" :> ".") @@ ("%2f" :> "/") @@ ("%5c" :> "\\") @@ ("%00" :> "NUL")

\* Escapes cut short, not hexadecimal, or not UTF-8 once decoded.
Malformed == {"%", "%zz", "%ff"}

percent_decode(path) ==
    [i \in DOMAIN path |-> IF path[i] \in DOMAIN Decodes THEN Decodes[path[i]] ELSE path[i]]

Unsafe(segment) ==
    segment = <<".", ".">> \/ \E i \in DOMAIN segment : segment[i] \in {"\\", "NUL"}

sanitize(decoded) ==
    SelectSeq(Segments(decoded), LAMBDA segment : segment \notin {<<>>, <<".">>})

\* The asset paths to try in order; none for an unsafe path.
candidate_paths(path) ==
    LET decoded == percent_decode(path)
        segments == sanitize(decoded)
        safe == /\ \A i \in DOMAIN path : path[i] \notin Malformed
                /\ \A i \in DOMAIN segments : ~Unsafe(segments[i])
    IN  IF ~safe THEN <<>>
        ELSE IF segments = <<>> \/ decoded[Len(decoded)] = "/"
             THEN [i \in DOMAIN IndexFiles |-> Append(segments, IndexFiles[i])]
             ELSE <<segments>>

\* One symbol per media type; parameters such as the charset are left out.
TextTypes ==
    (".html" :> "text/html") @@ (".htm" :> "text/html") @@ (".css" :> "text/css")
      @@ (".js" :> "text/javascript") @@ (".mjs" :> "text/javascript")
      @@ (".txt" :> "text/plain") @@ (".csv" :> "text/csv")
      @@ (".json" :> "application/json") @@ (".xml" :> "application/xml")
      @@ (".svg" :> "image/svg+xml")
BinaryTypes ==
    (".png" :> "image/png") @@ (".jpg" :> "image/jpeg") @@ (".jpeg" :> "image/jpeg")
      @@ (".gif" :> "image/gif") @@ (".webp" :> "image/webp") @@ (".ico" :> "image/x-icon")
      @@ (".woff" :> "font/woff") @@ (".woff2" :> "font/woff2") @@ (".ttf" :> "font/ttf")
      @@ (".pdf" :> "application/pdf") @@ (".zip" :> "application/zip")
      @@ (".gz" :> "application/gzip") @@ (".wasm" :> "application/wasm")
      @@ (".mp4" :> "video/mp4") @@ (".mp3" :> "audio/mpeg")
BuiltinMime == TextTypes @@ BinaryTypes

mime_for(path) ==
    LET name == path[Len(path)]
        types == MimeOverrides @@ BuiltinMime
        ext == name[Len(name)]
    IN  IF ext \in DOMAIN types THEN types[ext] ELSE "application/octet-stream"

\* Faulty variant: the tag is the length alone.
etag_of_length(len, mtime) == [weak |-> FALSE, len |-> len, mtime |-> 0]

etag(len, mtime) == [weak |-> FALSE, len |-> len, mtime |-> mtime]

\* An mtime of NotADate is a source without one.
file_response(path, bytes, mtime) ==
    [status |-> 200,
     headers |-> [n \in {"Content-Type", "Accept-Ranges"}
                          \cup (IF mtime = NotADate THEN {} ELSE {"Last-Modified", "ETag"}) |->
                    CASE n = "Content-Type"  -> mime_for(path)
                      [] n = "Accept-Ranges" -> "bytes"
                      [] n = "Last-Modified" -> http_date(mtime)
                      [] n = "ETag"          -> etag(Len(bytes), mtime)],
     body |-> bytes]

-----------------------------------------------------------------------------
(* The file system. *)

\* The length of the shortest prefix of the path that is a link; 0 if none is.
LinkedUpTo(path) ==
    LET linked == {k \in 1..Len(path) : SubSeq(path, 1, k) \in DOMAIN Links}
    IN  IF linked = {} THEN 0 ELSE CHOOSE k \in linked : \A j \in linked : k <= j

Follow(path) ==
    LET k == LinkedUpTo(path)
    IN  IF k = 0 THEN path
        ELSE Links[SubSeq(path, 1, k)] \o SubSeq(path, k + 1, Len(path))

\* Path::canonicalize: no chain of links is longer than there are links,
\* unless it is a loop, and then the path stays linked and has no file.
Canonical(path) ==
    LET step[n \in Nat] == IF n = 0 THEN path ELSE Follow(step[n - 1])
    IN  IF LinkedUpTo(path) = 0 THEN path ELSE step[Cardinality(DOMAIN Links)]

traverses_symlink(path) == LinkedUpTo(Root \o path) # 0

\* Faulty variant: the link is followed wherever it leads.
ResolvesAnywhere(path, follow, present) ==
    /\ follow \/ ~traverses_symlink(path)
    /\ Canonical(Root \o path) \in present

\* The regular file, among those present, that load and exists settle on.
Resolves(path, follow, present) ==
    LET candidate == Canonical(Root \o path)
    IN  /\ IsUnder(candidate, Root)
        /\ follow \/ ~traverses_symlink(path)
        /\ candidate \in present
=============================================================================
