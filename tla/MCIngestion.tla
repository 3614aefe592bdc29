---------------------------- MODULE MCIngestion ----------------------------
\* Small instances of Ingestion for TLC: two files, contents c0 (barren) and
\* c1, two vector upserts per file.
EXTENDS Ingestion

==============================================================================
