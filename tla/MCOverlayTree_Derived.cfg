CONSTANTS
    A = A  B = B  C = C  D = D  E = E  F = F  G = G  H = H  I = I
    Nodes = {A, B, C, D, E, F, G, H, I}
    Leader = A
    Stray = Stray
    Overlays <- ConfigOverlays
SPECIFICATION Spec
INVARIANTS OverlayDecides
CHECK_DEADLOCK FALSE
