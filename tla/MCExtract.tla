------------------------------ MODULE MCExtract ------------------------------
(***************************************************************************)
(* Two runs of extract, each with one of a few command lines.              *)
(***************************************************************************)
EXTENDS Extract, TLC

\* A human run as Export All starts it, or as a shell does.
Human == [extended |-> FALSE, objects |-> TRUE, images |-> TRUE, strings |-> TRUE,
          tables |-> TRUE, map |-> FALSE, force |-> FALSE, failOnPartial |-> FALSE,
          rawDir |-> FALSE, textDir |-> FALSE, manifest |-> FALSE, rawMin |-> 1, textMin |-> 1,
          viewer |-> FALSE]
ImagesOnly == [Human EXCEPT !.objects = FALSE, !.strings = FALSE, !.tables = FALSE]
Carving == [ImagesOnly EXCEPT !.extended = TRUE, !.images = FALSE]

MCOptions ==
    {[Human EXCEPT !.force = f] : f \in BOOLEAN}
    \cup {[Human EXCEPT !.viewer = TRUE], [Human EXCEPT !.viewer = TRUE, !.extended = TRUE,
                                                        !.map = TRUE],
          [Human EXCEPT !.objects = FALSE, !.images = FALSE, !.manifest = TRUE]}
    \cup {[ImagesOnly EXCEPT !.failOnPartial = TRUE, !.manifest = m] : m \in BOOLEAN}
    \cup {[Carving EXCEPT !.rawDir = d, !.manifest = d, !.force = f, !.failOnPartial = TRUE] :
              d, f \in BOOLEAN}
    \cup {[Carving EXCEPT !.textDir = TRUE, !.textMin = 0, !.strings = TRUE, !.tables = TRUE],
          [Carving EXCEPT !.rawMin = 0]}

Contents ==
    {[type |-> "opju", found |-> {"books", "summary", "decoded", "raw", "images", "provenance"},
      flawed |-> {"books"}, untrusted |-> {"images"}],
     [type |-> "opj", found |-> {"functions", "graphs", "tree", "raw", "text", "images"},
      flawed |-> {"images"}, untrusted |-> {"functions"}],
     [type |-> "opj", found |-> {}, flawed |-> {}, untrusted |-> {}]}
MCInputs ==
    {[cut |-> c] @@ i : i \in Contents, c \in {"none", "suspected", "definitive"}}
    \cup {[type |-> "other", found |-> {}, flawed |-> {}, untrusted |-> {}, cut |-> "none"]}
==============================================================================
