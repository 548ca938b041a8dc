---------------------------- MODULE MCDaoQueries ----------------------------
(***************************************************************************)
(* An instance of DaoQueries for TLC, with the users of MCDao.             *)
(***************************************************************************)
EXTENDS MCDao, DaoQueries

MCAddresses == <<u1, u2>>
=============================================================================
