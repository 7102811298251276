-------------------- MODULE MCCollectionSchemeManager --------------------
(* Small instances of the collection scheme manager. *)
EXTENDS CollectionSchemeManager

Scheme(id, dm, start, stop) == [id |-> id, dm |-> dm, start |-> start, stop |-> stop]
Manifest(id, rev, ok) == [id |-> id, rev |-> rev, ok |-> ok]
MCCorruptManifest == Manifest(NoId, 0, FALSE)

\* Scheme 1 waits for its start, runs at once, or needs another manifest; scheme 2 ends
\* as it starts.
MCSchemes == {Scheme(1, "dm1", 2, 3), Scheme(1, "dm1", 1, 2), Scheme(1, "dm2", 1, 3),
              Scheme(2, "dm1", 2, 2)}
\* For the runs about time and about one document after another: fewer documents.
MCFewSchemes == {Scheme(1, "dm1", 2, 3), Scheme(1, "dm1", 1, 2), Scheme(2, "dm1", 1, 3)}
\* With a scheme that is dropped by its build.
MCInverted == MCFewSchemes \cup {Scheme(2, "dm1", 3, 1)}
MCOneManifest == {Manifest("dm1", 1, TRUE)}
MCTwoManifests == {Manifest("dm1", 1, TRUE), Manifest("dm2", 1, TRUE)}
MCTwoRevisions == {Manifest("dm1", 1, TRUE), Manifest("dm1", 2, TRUE)}
\* An idle scheme whose next version is already over when it arrives.
MCOverdueUpdate == {Scheme(1, "dm1", 3, 4), Scheme(1, "dm1", 1, 2)}
MCManifests == {Manifest("dm1", 1, TRUE), Manifest("dm2", 1, TRUE), Manifest("dm3", 1, FALSE)}
=============================================================================
