-------------------------- MODULE MCGithubConnection --------------------------
(* A small instance of GithubConnection.                                    *)
EXTENDS GithubConnection, TLC

CONSTANTS r1, r2, w1, w2

\* Repositories are interchangeable.
RepoSymmetry == Permutations(Repos)
=============================================================================
