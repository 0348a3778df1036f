-------------------------- MODULE MCEditorSession --------------------------
EXTENDS EditorSession

\* Two runs with one date in common, and one without sessions.
MCAxis == [run \in Runs |-> IF run = 3 THEN {} ELSE {run, run + 1}]
MCDefault == [run \in Runs |-> IF run = 3 THEN 0 ELSE run + 1]

\* Sessions that edit and save, that edit and validate, and that look at runs.
MCLimits == {
    [opens |-> 2, edits |-> 2, versions |-> 2, mounts |-> 2, checks |-> 0, runs |-> 0],
    [opens |-> 1, edits |-> 2, versions |-> 0, mounts |-> 2, checks |-> 2, runs |-> 0],
    [opens |-> 2, edits |-> 0, versions |-> 0, mounts |-> 2, checks |-> 1, runs |-> 1]}
=============================================================================
