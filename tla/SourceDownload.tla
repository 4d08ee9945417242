--------------------------- MODULE SourceDownload ---------------------------
(***************************************************************************)
(* The download of an official source file                                 *)
(* (src/src/behavior_lab/datasets/nber_best_offer/source_inventory.py):    *)
(* download_once takes a file that is there as it is; otherwise it fills a *)
(* partial file, by ranges from where an earlier attempt stopped or in one *)
(* stream from the start, and renames it.                                  *)
(*                                                                         *)
(* The remote file may be replaced at any time, answers may end early,     *)
(* processes may die and may overlap.  A file is its blocks, each with the *)
(* version it is of.  An open file keeps its identity when its path is     *)
(* renamed or removed.  The progress file is written and never read.       *)
(***************************************************************************)
EXTENDS Naturals, Sequences

CONSTANTS
  Downloaders, \* processes that run download_once
  BlocksOf,    \* the length of each version of the remote file, in blocks
  Span,        \* blocks of a range request
  MaxFiles,    \* bounds of the model, not of the code: partial files made,
  MaxStops     \* answers that end early, requests that fail, deaths

ASSUME DownloadAssumption ==
  /\ BlocksOf \in Seq(Nat \ {0}) /\ BlocksOf # <<>>
  /\ Span \in Nat \ {0} /\ MaxFiles \in Nat /\ MaxStops \in Nat

VARIABLES
  remote,  \* the version the server has now
  content, \* the blocks of every file made, in the order they were made
  part,    \* the file at the partial path, 0 when there is none
  dest,    \* the file at the destination
  loader,  \* what each process is doing
  upsets,  \* what has happened of "overlap", "change" and "truncation"
  stops

downloadVars == <<remote, content, part, dest, loader, upsets, stops>>

NotLoading == [at |-> "out"]
Move(p, l) == loader' = [loader EXCEPT ![p] = l]
Loading(p, step) == loader[p].at = step
Copy(v) == [k \in 1..BlocksOf[v] |-> [of |-> v, at |-> k]]
Size(f) == Len(content[f])

\* download_once with no file at the destination, and the answer of probe_remote: the
\* length when ranges are accepted, 0 when they are not or the probe failed.
BeginDownload(p) ==
  /\ Loading(p, "out") /\ dest = 0
  /\ \E total \in {0, BlocksOf[remote]} : Move(p, [at |-> "open", total |-> total])
  /\ upsets' = upsets \cup {u \in {"overlap"} : \E q \in Downloaders : ~Loading(q, "out")}
  /\ UNCHANGED <<remote, content, part, dest, stops>>

\* An empty partial file: the one at the path truncated, or a new one.
Truncate(f) == content' = [content EXCEPT ![f] = <<>>] /\ UNCHANGED part
Make == Len(content) < MaxFiles /\ content' = Append(content, <<>>) /\ part' = Len(content')

Fetch(total, f, start) ==
  [at |-> "fetch", total |-> total, file |-> f, start |-> start, end |-> 0, of |-> 0]

\* download_by_ranges goes on at the end of a partial file that is not too long; one that
\* is, and any before a single stream, is removed.
OpenPartial(p) ==
  /\ Loading(p, "open")
  /\ LET total == loader[p].total
         size == IF part = 0 THEN 0 ELSE Size(part)
     IN  IF 0 < size /\ size <= total
         THEN Move(p, Fetch(total, part, size)) /\ UNCHANGED <<content, part>>
         ELSE /\ IF part # 0 /\ total > 0 /\ size = 0 THEN Truncate(part) ELSE Make
              /\ Move(p, Fetch(total, part', 0))
  /\ UNCHANGED <<remote, dest, upsets, stops>>

\* The request for the next range, or for the whole file, is answered from the version
\* there is; a range past its end is an error.
Request(p) ==
  /\ Loading(p, "fetch")
  /\ LET l == loader[p]
         end == IF l.total = 0 THEN BlocksOf[remote]
                ELSE IF l.start + Span < l.total THEN l.start + Span ELSE l.total
     IN  Move(p, CASE l.total > 0 /\ l.start = l.total -> [l EXCEPT !.at = "check"]
                   [] l.total > 0 /\ l.start < l.total /\ l.start >= BlocksOf[remote] -> NotLoading
                   [] OTHER -> [l EXCEPT !.at = "body", !.end = end, !.of = remote])
  /\ UNCHANGED <<remote, content, part, dest, upsets, stops>>

\* A block of the answer is appended to the open file.
WriteBlock(p) ==
  /\ Loading(p, "body")
  /\ LET l == loader[p]
     IN  /\ l.start < l.end /\ l.start < BlocksOf[l.of]
         /\ content' = [content EXCEPT ![l.file] = Append(@, [of |-> l.of, at |-> l.start + 1])]
         /\ Move(p, [l EXCEPT !.start = @ + 1])
  /\ UNCHANGED <<remote, part, dest, upsets, stops>>

\* Mutant: a range that ended early is no reason to stop, and the size is not compared.
AfterBodyUnchecked(l) ==
  [l EXCEPT !.at = IF l.total = 0 \/ l.start < l.end THEN "rename" ELSE "fetch"]
\* A single stream is complete when it ends; a range that ended early has stalled.
AfterBody(l) ==
  IF l.total = 0 THEN [l EXCEPT !.at = "rename"]
  ELSE IF l.start < l.end THEN NotLoading ELSE [l EXCEPT !.at = "fetch"]

BodyEnds(p) ==
  /\ Loading(p, "body")
  /\ LET l == loader[p]
         early == l.start < l.end /\ l.start < BlocksOf[l.of]
     IN  /\ Move(p, AfterBody(l))
         /\ early => stops < MaxStops
         /\ stops' = stops + (IF early THEN 1 ELSE 0)
         /\ upsets' = upsets \cup {u \in {"truncation"} : early /\ l.total = 0}
  /\ UNCHANGED <<remote, content, part, dest>>

\* The size of what is at the partial path by then; nothing there is an error too.
CheckSize(p) ==
  /\ Loading(p, "check")
  /\ LET l == loader[p]
     IN  Move(p, IF part # 0 /\ Size(part) = l.total THEN [l EXCEPT !.at = "rename"] ELSE NotLoading)
  /\ UNCHANGED <<remote, content, part, dest, upsets, stops>>

\* os.replace: whatever is at the partial path, over whatever is at the destination.
Rename(p) ==
  /\ Loading(p, "rename")
  /\ IF part = 0 THEN UNCHANGED <<part, dest>> ELSE dest' = part /\ part' = 0
  /\ Move(p, NotLoading)
  /\ UNCHANGED <<remote, content, upsets, stops>>

\* The process dies, or a request fails.
BreakOff(p) ==
  /\ ~Loading(p, "out") /\ stops < MaxStops /\ stops' = stops + 1
  /\ Move(p, NotLoading)
  /\ UNCHANGED <<remote, content, part, dest, upsets>>

\* The publisher replaces the file.
Publish ==
  /\ remote + 1 \in DOMAIN BlocksOf /\ remote' = remote + 1
  /\ upsets' = upsets \cup {u \in {"change"} : part # 0 \/ \E p \in Downloaders : ~Loading(p, "out")}
  /\ UNCHANGED <<content, part, dest, loader, stops>>

DownloadInit ==
  /\ remote = 1 /\ content = <<>> /\ part = 0 /\ dest = 0
  /\ loader = [p \in Downloaders |-> NotLoading] /\ upsets = {} /\ stops = 0
DownloadNext ==
  \/ Publish
  \/ \E p \in Downloaders : \/ BeginDownload(p) \/ OpenPartial(p) \/ Request(p) \/ WriteBlock(p)
                            \/ BodyEnds(p) \/ CheckSize(p) \/ Rename(p) \/ BreakOff(p)
DownloadSpec == DownloadInit /\ [][DownloadNext]_downloadVars
-----------------------------------------------------------------------------
\* A file that counts as present is a copy of one version of the remote file, however often
\* its download was broken off and resumed, unless the remote file changed underneath, two
\* downloads overlapped, or an answer without a length ended early; a change alone can mix
\* versions, but never leaves a gap, a repetition or a length no version has.
PresentIsACopy ==
  dest # 0 =>
    /\ upsets = {} => \E v \in DOMAIN BlocksOf : content[dest] = Copy(v)
    /\ upsets \subseteq {"change"} =>
         /\ \A k \in 1..Size(dest) : content[dest][k].at = k
         /\ \E v \in DOMAIN BlocksOf : Size(dest) = BlocksOf[v]
=============================================================================
