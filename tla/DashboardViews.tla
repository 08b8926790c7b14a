--------------------------- MODULE DashboardViews ---------------------------
(***************************************************************************)
(* The pages of the web application show what is in files other processes  *)
(* rewrite: the paper log and the latest analysis report.  What was read   *)
(* is kept by the signature (time and size) the file had before it was     *)
(* read, for two seconds.                                                  *)
(***************************************************************************)
EXTENDS Naturals, FiniteSets

CONSTANTS
  Readers,       \* requests served at the same time
  Pages,         \* pages asked for
  MaxRewrites    \* bound on the rewrites of the files

VARIABLES
  files,     \* each file: its content and its signature
  kept,      \* each kind of view: the signature and the content kept
  request,   \* each reader: the views its page still needs, the one in hand, its signature
  shown,     \* each reader: the views of its page
  past       \* history: contents each file has had, by signature

viewVars == <<files, kept, request, shown, past>>

Empty == 0                               \* the content of a truncated file
FileOf == [summary |-> "log", history |-> "log", analysis |-> "report"]
Kinds == DOMAIN FileOf
Views == [admin |-> Kinds, home |-> {"history", "analysis"}, history |-> {"history"},
          validation |-> {"analysis", "history"}, execution |-> {"history", "analysis"}]

ASSUME PagesAssumption == Pages \subseteq DOMAIN Views

Idle == [needs |-> {}, kind |-> "none", signature |-> 0]
NotKept == [signature |-> 0, content |-> Empty]
NotShown == [kind \in Kinds |-> [since |-> 0, content |-> Empty]]

ViewInit ==
  /\ files = [f \in {"log", "report"} |-> [content |-> 1, signature |-> 1]]
  /\ kept = [kind \in Kinds |-> NotKept]
  /\ request = [r \in Readers |-> Idle] /\ shown = [r \in Readers |-> NotShown]
  /\ past = [f \in {"log", "report"} |-> {<<1, 1>>}]

Write(f, content) ==
  LET signature == files[f].signature + 1
  IN  /\ files' = [files EXCEPT ![f] = [content |-> content, signature |-> signature]]
      /\ past' = [past EXCEPT ![f] = @ \cup {<<signature, content>>}]

\* A file is opened for writing, which empties it, and written.
OpenFile(f) ==
  /\ files[f].content # Empty
  /\ files["log"].signature + files["report"].signature <= 2 * MaxRewrites
  /\ Write(f, Empty) /\ UNCHANGED <<kept, request, shown>>
WriteFile(f) ==
  /\ files[f].content = Empty
  /\ Write(f, files[f].signature + 1) /\ UNCHANGED <<kept, request, shown>>

\* A page is asked for: the service of a request keeps nothing from the one before.
OpenPage(r) ==
  /\ request[r] = Idle
  /\ \E page \in Pages : request' = [request EXCEPT ![r].needs = Views[page]]
  /\ shown' = [shown EXCEPT ![r] = NotShown]
  /\ UNCHANGED <<files, kept, past>>

Show(r, kind, since, content) ==
  /\ shown' = [shown EXCEPT ![r][kind] = [since |-> since, content |-> content]]
  /\ request' = [request EXCEPT ![r] = [Idle EXCEPT !.needs = request[r].needs \ {kind}]]

\* The file is looked at: it is empty, what was kept is of this signature, or it is
\* read next.
Stat(r, kind) ==
  /\ request[r].kind = "none" /\ kind \in request[r].needs
  /\ LET file == files[FileOf[kind]]
     IN  \/ file.content = Empty /\ Show(r, kind, file.signature, Empty)
         \/ /\ file.content # Empty /\ kept[kind].signature = file.signature
            /\ Show(r, kind, file.signature, kept[kind].content)
         \/ /\ file.content # Empty /\ kept[kind].signature # file.signature
            /\ request' = [request EXCEPT ![r].kind = kind, ![r].signature = file.signature]
            /\ UNCHANGED shown
  /\ UNCHANGED <<files, kept, past>>

\* Mutant: the signature is taken when the file is read.
LoadSigned(r) ==
  /\ request[r].kind # "none"
  /\ LET kind == request[r].kind  file == files[FileOf[request[r].kind]]
     IN  \E old \in {v \in past[FileOf[kind]] : v[1] >= request[r].signature} :
           /\ kept' = [kept EXCEPT ![kind] = [signature |-> file.signature, content |-> old[2]]]
           /\ Show(r, kind, request[r].signature, old[2])
  /\ UNCHANGED <<files, past>>

\* The file is read, by now perhaps a later one, and kept by the signature it had.
Load(r) ==
  /\ request[r].kind # "none"
  /\ LET kind == request[r].kind  content == files[FileOf[request[r].kind]].content
     IN  /\ kept' = [kept EXCEPT ![kind] = [signature |-> request[r].signature, content |-> content]]
         /\ Show(r, kind, request[r].signature, content)
  /\ UNCHANGED <<files, past>>

\* Two seconds are over.
Forget(kind) ==
  /\ kept[kind] # NotKept /\ kept' = [kept EXCEPT ![kind] = NotKept]
  /\ UNCHANGED <<files, request, shown, past>>

ViewNext ==
  \/ \E f \in DOMAIN files : OpenFile(f) \/ WriteFile(f)
  \/ \E r \in Readers : OpenPage(r) \/ Load(r) \/ (\E kind \in Kinds : Stat(r, kind))
  \/ \E kind \in Kinds : Forget(kind)

ViewSpec == ViewInit /\ [][ViewNext]_viewVars

-----------------------------------------------------------------------------
\* What is kept under the signature a file has now is what the file holds now, even
\* if it was read after another rewrite (dashboard_summary.py:89,
\* role_view_service.py:291).
KeptIsCurrent ==
  \A kind \in Kinds :
    LET file == files[FileOf[kind]]
    IN  kept[kind].signature = file.signature => kept[kind].content = file.content

\* A page shows of each file a content it had after the page was asked for, be it the
\* empty one of a rewrite (dashboard_summary.py:82, role_view_service.py:284).
ShownIsNotOlder ==
  \A r \in Readers, kind \in Kinds :
    shown[r][kind].since > 0 =>
      \E v \in past[FileOf[kind]] : v[1] >= shown[r][kind].since /\ v[2] = shown[r][kind].content

\* Pages over files that are rewritten meanwhile: nothing outdated is kept as
\* current, and nothing older than the request is shown (dashboard_summary.py:82,89).
PagesHold == KeptIsCurrent /\ ShownIsNotOlder
=============================================================================
