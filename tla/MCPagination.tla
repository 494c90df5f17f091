---------------------------- MODULE MCPagination ---------------------------
(* Instance of Pagination: a few rows, and page sizes below, at and above    *)
(* the bounds NormalizePageSize compares with.                               *)
EXTENDS Pagination

MCPageSizes == {-1, 0, 1, 2, 9}
=============================================================================
