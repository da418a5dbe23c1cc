------------------------------ MODULE MCWebRoom ------------------------------
\* A small instance of WebRoom.
EXTENDS WebRoom
=============================================================================
