------------------------------ MODULE MCWorkflow ------------------------------
\* Two roots joined at a step that one of them may leave unsatisfied, and a step
\* behind it that is skipped with it.
EXTENDS WorkflowSettlement

E(from, out, to, input, guarded) ==
    [from |-> from, out |-> out, to |-> to, input |-> input, guarded |-> guarded]

MCNodes == {"left", "right", "join", "tail"}
MCEdges == << E("left", "a", "join", 1, TRUE), E("right", "b", "join", 2, FALSE),
              E("join", "c", "tail", 1, TRUE) >>
===============================================================================
