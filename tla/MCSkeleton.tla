---- MODULE MCSkeleton ----
\* Peers and chains for TLC are model values of the configurations.
EXTENDS Skeleton
====
