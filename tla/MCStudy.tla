------------------------------ MODULE MCStudy ------------------------------
EXTENDS Study

\* Two directions as close to the frontier (0) and unrelated to each other.
MCTopics == {1, 7}

MCPaces == {40}
=============================================================================
