SPECIFICATION Spec
CONSTANTS
    c1 = c1  c2 = c2  c3 = c3
    Colors = {c1, c2, c3}
    defaultColor <- MCDefaultColor
    Primary <- MCPrimary
    Widths = {899, 950, 1000, 1001}
    None = None
INVARIANTS TypeOK OneTheme ColorsComplete WidthDecides
