------------------------------ MODULE MCJoinTool ------------------------------
EXTENDS JoinTool

CONSTANTS a, b

MCContent == {<<a>>, <<b>>}
=============================================================================
