-------------------------- MODULE MCDatabaseClient --------------------------
EXTENDS DatabaseClient

\* An overwrite stores a figure that credits do not reach, so that its write is
\* told from theirs.
MCValues == {7}
=============================================================================
