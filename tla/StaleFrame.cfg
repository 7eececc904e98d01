SPECIFICATION Spec
CONSTANTS
    Viewer = {v1, v2}
    None = None
    Picture <- MCPicture
    Noise <- MCNoise
    MaxBuffer = 5
    MaxScan = 8
    MaxUnread = 0
INVARIANT NoStaleSnapshot
