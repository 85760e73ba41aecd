---- MODULE MCPathDB ----
EXTENDS PathDB
====
