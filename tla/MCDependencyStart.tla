-------------------------- MODULE MCDependencyStart --------------------------
EXTENDS DependencyStart

CONSTANTS a, b, c, x

ThreeServices == <<a, b, c>>
==============================================================================
