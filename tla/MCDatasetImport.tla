--------------------------- MODULE MCDatasetImport ---------------------------
(* DatasetImport on small instances. *)
EXTENDS DatasetImport

Row(k, v) == [key |-> k, value |-> v]
AllRecords == [key : Titles \cup {0}, value : Values \cup {0}]

\* Title 1 changes its votes, title 2 comes and goes; a NULL, a malformed line
\* and a duplicate.
RatingFiles == {<<Row(1, 1), Row(2, 2), Row(3, 1)>>, <<Row(1, 2), Row(2, 0)>>,
                <<Row(1, 1), Malformed>>, <<Row(1, 1), Row(1, 2)>>}
\* An episode that changes its parent, and an empty file.
EpisodeFiles == {<<Row(2, 1)>>, <<Row(2, 2), Row(3, 1)>>, << >>}
\* Titles that are kept and not.
BasicsFiles == {<<Row(1, 1)>>, <<Row(1, 1), Row(0, 1), Row(2, 1), Row(3, 0)>>}

MCFilesOf == <<RatingFiles, EpisodeFiles, BasicsFiles>>

=============================================================================
